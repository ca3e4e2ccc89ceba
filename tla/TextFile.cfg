\* Two texts and a reader outstanding together.
SPECIFICATION FairSpec
CONSTANTS
  Text = {t1, t2}
  ReadCall = ReadCall
  NoFile = NoFile
  Torn = Torn
INVARIANT SavedTextSurvives
PROPERTIES AckIsDurable ImplementsDurableText CallsSettle
