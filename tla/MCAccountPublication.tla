----------------------- MODULE MCAccountPublication -----------------------
(***************************************************************************)
(* Instances of the publication of accounts for TLC.                       *)
(***************************************************************************)
EXTENDS AccountProperties, TLC

CONSTANTS p1, p2

MCDevices == {"d1", "d2"}
MCDates   == {"mon", "tue"}
MCRevisions == {1, 2}
MCPublishers == {p1, p2}
MCSymmetry == Permutations(MCPublishers)
MCManifests == {<<"d1", "mon", 1>>, <<"d1", "mon", 2>>, <<"d2", "mon", 1>>, <<"d2", "tue", 1>>}
FewManifests == {<<"d1", "mon", 1>>, <<"d1", "mon", 2>>, <<"d2", "mon", 1>>}
MCLossy == {<<"d1", "mon", 1>>}
=============================================================================
