\* A poll retires a series between the read of a snapshot and its publication:
\* no fault is needed.
SPECIFICATION Spec
CONSTANTS
    Plugins = {"acme", "acme_a"}
    Keys = {"acme.a_b", "acme_a.b"}
    Owner <- OwnerOf
    Patterns = {"acme.a_b"}
    ObjectIds = {"ngu_acme_a_b"}
    ObjectId <- IdOf
    Values = {1, 2}
    Reports <- ReportsOf
    Nothing = Nothing
    MaxChanges = 2
    MaxFaults = 0
PROPERTIES
    RetiredStaysGone
