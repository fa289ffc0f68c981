\* Two plugins with one key each, colliding on one object id; one key follows
\* the pattern lifecycle.  Two changes of the catalogue, two faults of any kind
\* (a dropped link, a forgetful broker, a crash, an unreadable table) at any step;
\* polls without limit.
SPECIFICATION FairSpec
CONSTANTS
    Plugins = {"acme", "acme_a"}
    Keys = {"acme.a_b", "acme_a.b"}
    Owner <- OwnerOf
    Patterns = {"acme.a_b"}
    ObjectIds = {"ngu_acme_a_b"}
    ObjectId <- IdOf
    Values = {1, 2}
    Reports <- ReportsOf
    Nothing = Nothing
    MaxChanges = 2
    MaxFaults = 2
INVARIANTS
    TypeOK
    BookkeepingAgrees
PROPERTIES
    EntityNotStolen
    Converges
