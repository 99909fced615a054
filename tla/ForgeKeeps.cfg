SPECIFICATION Spec
CONSTANTS
  Base <- MCBase
  BaseDef <- MCBaseDef
  AffixDef <- MCAffixDef
  Gem <- MCGem
  GemDef <- MCGemDef
  Enchant <- MCEnchant
  EnchantDef <- MCEnchantDef
  Item <- MCItem
  SlotOf <- MCSlotOf
  Drinks = {"mana_crystal"}
  Recipe <- MCRecipe
  Workshops <- MCWorkshops
  Depth = {16, 24}
  DropQuality = {39}
  MaxStack = 15
  MaxPromotions = 1
  MaxKills = 1
INVARIANTS WithinBudget WornSound
PROPERTIES GemsKept WorkLasts ReforgeReturns
CHECK_DEADLOCK FALSE
