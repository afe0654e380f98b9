SPECIFICATION MCSpec
CONSTANTS
  ann = ann  bob = bob  x = x  y = y
  User = {ann, bob}
  Slug = {"phone"}
  Session = {x, y}
  MaxListing = 2
  ShopOf <- Shops
  CurrencyOf <- Currencies
  Label = {"128GB", "256GB"}
  Category = {"phone"}
  Kind <- KindOf
  TitleSays <- Titles
  UrlSays <- Urls
  Answer <- Answers
  Given <- Requests
  MaxGroups = 1
  MaxAttaches = 2
  MaxChecks = 2
SYMMETRY Alike
VIEW Relevant
INVARIANTS OneModelUnlessRaced GridShowsCheapest ConfirmedUnlessRaced
PROPERTIES MovesOneAccount
