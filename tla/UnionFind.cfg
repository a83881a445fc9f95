SPECIFICATION ForestSpec
CONSTANT
  Nodes = {w1, w2, w3, w4}
PROPERTY IsPartition
