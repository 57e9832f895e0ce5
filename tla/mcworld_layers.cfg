\* Two source chunks, requests in any order.
SPECIFICATION Spec
CONSTANT SourceChunks = {1, 2}
INVARIANT GeneralConsumersReceiveBothLayers
