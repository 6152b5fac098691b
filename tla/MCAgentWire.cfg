SPECIFICATION WireSpec
CONSTANTS
  Catalog <- CatalogValue
  LastUnit = 3
  Team <- TeamValue
  MaxHp <- MaxHpValue
  Agent = 1
  Equipped <- EquippedValue
  Cooldown = 2
  Spots <- PlacesValue
  MovesX = {2}
  MovesY = {1}
  MaxChanges = 1
INVARIANT FrameShowsUnits
INVARIANT PolicyMeansTheSame
INVARIANT ShapingAddsUp
