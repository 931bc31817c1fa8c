SPECIFICATION Spec
CONSTANTS
  Formats <- MCFormats
  LuaFormats <- MCLuaFormats
  Numbers = {0, 7, 12, 121}
  INT_MAX = 63
  Texts <- MCTexts
  FloatTexts <- MCFloatTexts
  Sizes = {1, 4}
  LONG = 5
INVARIANTS
  Formatted
  Released
