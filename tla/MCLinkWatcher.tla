---------------------------- MODULE MCLinkWatcher ----------------------------
EXTENDS LinkWatcher

CONSTANTS a, b, t1, t2

MCKeys == {a, b}
MCTopics == {t1, t2}

(* Member names and topics are interchangeable.                            *)
MCSymmetry == Permutations({a, b}) \cup Permutations({t1, t2})
=============================================================================
