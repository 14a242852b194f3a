------------------------------- MODULE MCSync -------------------------------
(* After the release recorded at first: one that is not attested, one that  *)
(* can be followed, the same rules under another tag, one this engine does  *)
(* not pass yet and one the generator refuses.                              *)
EXTENDS Sync

MCReleases == 0 .. 5
MCVersion == [r \in MCReleases |-> IF r = 3 THEN 2 ELSE r]
MCSumsMatch == MCReleases
MCAttested == MCReleases \ {1}
MCComplete == MCReleases
MCGeneratable == MCReleases \ {5}
MCFollowed == MCReleases \ {4, 5}
=============================================================================
