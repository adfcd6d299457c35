SPECIFICATION Spec
INVARIANTS MasksMean ParserSound WireSound
 
CHECK_DEADLOCK FALSE
