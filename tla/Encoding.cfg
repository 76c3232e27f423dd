CONSTANTS
  Inputs <- SomeInputs
  Texts <- SomeTexts
  Sizes <- SomeSizes
  IntRange = 4194304
SPECIFICATION Spec
CHECK_DEADLOCK FALSE
INVARIANTS EncodesRfc4648 RoundTrip DecodesWholeBytes PadsFips180
