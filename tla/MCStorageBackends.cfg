SPECIFICATION Spec
CONSTANTS
    h1 = h1
    raw = raw  encoded = encoded  none = none  torn = torn
    Hash = {h1}
    Form = {raw, encoded}
    Raw = raw
    None = none
    Torn = torn
    Kinds = {"memory", "filesystem", "s3"}
INVARIANTS IndexDescribesStore
PROPERTIES KeepsThePromise 
