SPECIFICATION Spec
CONSTANTS
  Tables = {"a", "b"}
  Overrides <- InferredAndNumeric
  Fields = {"amount"}
  FieldKinds <- BigAndSmall
  OldTables = {"a"}
  MaxI64 = 1
  MaxKey = 2
  DbFails = TRUE
  Limits <- ClientLimits
  default_limit = 1
  max_limit = 1
INVARIANTS FailureHasCause ResumeIsExact PagesAreComplete ErrorHasCause
PROPERTY StoreContract
