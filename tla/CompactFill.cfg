CONSTANTS
  Txs = {"t", "u", "v"}
  ShortIds <- SomeIds
  short_id <- Colliding
  RawBlocks <- AnyBlocks
  MaxBody = 3
SPECIFICATION CompactSpec
INVARIANTS OneFillCompletes SlotsMatchIds
