\* Two queries of up to two tasks each, an event queue of two slots.
CONSTANTS
  q1 = q1
  q2 = q2
  Queries <- MCQueries
  Capacity = 2
  MaxTasks = 2
  Schema <- MCSchema
  Payloads <- MCPayloads
SPECIFICATION Spec
INVARIANT TypeOK DerivedIffSubmitKept PrintedIsBase64
PROPERTY StopReported
\* The printer thread ends once its stop is requested.
CHECK_DEADLOCK FALSE
