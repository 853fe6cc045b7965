CONSTANTS
  DataTypes <- MCDataTypes
  jl_small_typeof <- MCSmallTypeof
  jl_symbol_type = 2320
  jl_weakref_type = 2288
  JULIA_BUFF_TAG = 1319976960
  julia_copy_stack = TRUE
  Stackbase <- MCStackbase
  MaxFrames = 4
  IsMapped <- MCIsMapped
  JULIA_HEADER_SIZE = 8
  LosStart = 100000
  LosEnd = 200000
  Kinds = {"tpinned", "nodes", "slots"}
  ROOT_WORK_PACKET_SIZE = 2
  JL_BT_NON_PTR_ENTRY <- MCNonPtrEntry
  Heaps <- SafeHeaps
  Delta = 20000
  jl_nothing = 20000
  debug_assertions = TRUE
SPECIFICATION Spec
INVARIANTS
  TypeOK SlotsHoldObjects ScansFindReferences EveryRootIsReported
  ScansAreRightAtRest SurvivorsAreReachable
  ReferencesFollowMoves AddressesInUseStay CopiesAreWhole SizesStayRight
  WeakRefsAreClearedOrMoved TablesFollowObjects
