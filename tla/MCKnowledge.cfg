CONSTANTS
  Nothing = Nothing
  Off = Off
  b1 = b1
  b2 = b2
  MaxDepth = 4
  JsonMedia <- OnlyJson
  FormMedia <- Forms
  TextMedia = "text"
  Sensitive <- SecretNames
SPECIFICATION Spec
INVARIANTS CodeKnowledgeIsSound ApiKnowledgeIsSound AnswersAreGrounded
\* Builds that are done stay so, and an account is one state.
CHECK_DEADLOCK FALSE
