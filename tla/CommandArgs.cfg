SPECIFICATION Spec
CONSTANTS
  Meaning <- MCMeaning
  Known <- MCKnown
  Default <- MCDefault
  Number <- MCNumber
  Names = {"g", "x,y"}
  Plain = {"f", "g"}
  HasComma = {"x,y"}
  HasEquals = {"x=f", "-db=x=f", "-user=u", "-no-owner=false", "-out=c'"}
  HasCurly = {"c'", "-out=c'"}
  NoNames = {""}
  MaxArgs = 4
INVARIANTS
  ReadsAsWritten
  OfferRuns
