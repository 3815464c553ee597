CONSTANT
  Func = {f1, f2, f3, f4}
SYMMETRY Symmetry
SPECIFICATION Spec
INVARIANTS
  GroupsAreCycles
  EveryFunctionOnce
PROPERTY
  ImplementsSchedule
