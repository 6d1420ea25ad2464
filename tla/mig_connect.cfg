\* Two processes connect, die and connect again, in any languages, and write nodes in between.
CONSTANTS
  Processes = {p1, p2}
  Languages = {english, german, klingon}
  Known = {english, german}
  Safe = {english, german, klingon}
  English = english
  NodeIds = {n1, n2}
  None = None
  MaxStarts = 4
SYMMETRY MCSymmetry
SPECIFICATION Spec
INVARIANTS TypeOK ConnectedFindsSchema LoneStartSucceeds SearchSpeaksOneLanguage
CHECK_DEADLOCK FALSE
