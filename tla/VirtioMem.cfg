CONSTANTS
  region_size = 16
  block_size = 2
  alignment = 2
  VIRTIO_MEM_MAP_REGION_SIZE = 6
  MaxBlocks = 2
SPECIFICATION Spec
INVARIANTS
  PluggedUsable
  PluggedCounted
  TranslationExact
  CanReachRequested
CHECK_DEADLOCK FALSE
