SPECIFICATION MCSpec
CONSTANTS
    Absent = Absent
    u1 = u1
    c1 = c1
    NoText = Absent
    NoUser = Absent
    None = Absent
    Nothing = Absent
    Missing = Absent
    Unset = Absent
    Nobody = Absent
    Users = {c1, c2}
    Texts = {u1, u2}
    Copies = {c1, c2}
    Urls = {u1, u2}
    Names = {"n"}
    MaxKeys = 2
    MaxLogins = 2
    Targets = {"file", "entity", "blueprint"}
    MaxRevision = 3
    Kinds = {"file", "entity", "blueprint", "mapping"}
    Sources = {Absent, "u"}
    MaxWrites = 3
    ImportFlows = {"files", "ontology", "backstage", "export"}
    DocumentKeys = {1, 2}
    Definitions = {2}
    Batchable = {{1}, {1, 2}}
    CHUNK = 1
    MaxVersions <- BatchVersions
    MaxRuns = 1
    Schemas <- QuerySchemas
    FieldTexts = {"integer"}
    Limits = {0, 10001}
    Hops = {1, 11}
    MaxParts = 2
    Pickers = {"lens"}
    Selections = {u1, u2}
    Ids = {1, 2}
    InFlight = {w1, w2}
    SwitchWrites = {w1}
    Me = "me"
    Other = "other"
    Tables = {"files", "entities"}
    RowIds = {1, 2}
    Sizes = {1, 2}
    Filters = {{1, 2}, {2}}
    MaxWritten = 2
    Accounts = {1, 2}
    Features = {"MFA"}
    DictionaryFamilies = {"namespaces", "lifecycles"}
    Values = {"a", "A"}
    MaxIds = 2
    MaxRows = 1
    MaxRequests = 1
    Families = {"tags", "types", "annotations"}
    RegistryContents <- RegistrySheets
    MaxMounts = 2
    SheetWords = {"k", "l", " ", "a", "A", "b", ""}
    SchemaWords = {"svc", "_team", "p", "rel", "owns", "Owns"}
    EnumTexts = {"word"}
    TrimmedText <- Trimmed
    LowerText <- Lowered
    NumberOf <- Numerals
    ParsedText <- Parsed
    SchemaTexts = {"{s}"}
    Identifiers <- Plain
    Patterns = {"^1"}
    Formatted <- FormatTexts
    FileNames <- Plain
    FileNamespaces <- Plain
    LabelKeys <- Plain
    EntityRefs <- Plain
    TagNames <- Plain
    SingleWords <- Plain
    Uris <- Plain
INVARIANTS
    LawsHold
    ReportsLineUp
    PagesOfferWhatTheyShow
    QueriesStayWithTheirAccount
PROPERTIES
    SavesFollowTheReread
    WritesMatchWhatWasSeen
SYMMETRY Interchangeable
CHECK_DEADLOCK FALSE
