\* Does the attribute of a container speak of all its chunks?
CONSTANTS
  Sizes = {1, 2, 3}
  MaxContainers = 3
  MaxVersions = 3
  MaxNew = 1
  Garbage = {0, 2}
SPECIFICATION Spec
INVARIANTS AttributesTruthful
