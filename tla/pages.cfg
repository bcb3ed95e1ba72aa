\* Three extractions of one session over each of the portals.
SPECIFICATION FairSpec
CONSTANTS
  s1 = s1
  s2 = s2
  d1 = d1
  d2 = d2
  c1 = c1
  c2 = c2
  f1 = f1
  m1 = m1
  Pages = {s1, s2, d1, d2, c1, c2, f1, m1}
  Links <- LinksRepeated
  ActiveSites <- ActiveOnes
  PastSites <- OfTheArchive
  Sites <- AllSites
INVARIANTS PagesTypeOK OwnPages RowsExact DetailsDecide DetailsOnce
PROPERTY EveryExtractionEnds
\* The session stops after its last tender.
CHECK_DEADLOCK FALSE
