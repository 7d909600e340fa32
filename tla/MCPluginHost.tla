---------------------------- MODULE MCPluginHost ----------------------------
(* Small instances of PluginHost. *)
EXTENDS PluginHost

Dir(n, v, d, sound) == [name |-> n, version |-> v, digest |-> d, sound |-> sound]

\* One plugin, one directory.
OneDir == {Dir("p", 1, 1, TRUE)}
NoDependencies == [n \in Plugins |-> {}]

\* Two plugins, the second needing the first; one version of the first with two
\* digests, and a second version of it, both sound; a directory of the second that
\* fails provenance or its schema.
FiveDirs == {Dir("p", 1, 1, TRUE), Dir("p", 1, 2, TRUE), Dir("p", 2, 2, TRUE),
             Dir("q", 1, 1, TRUE), Dir("q", 2, 2, FALSE)}
QNeedsP == [n \in Plugins |-> IF n = "q" THEN {"p"} ELSE {}]

\* A fetch the manifest declares and the operator grants, and one the operator does not.
Asked    == {"fetch", "ungranted"}
Manifest == [n \in Plugins |-> Asked]
Policy   == [n \in Plugins |-> {"fetch"}]
NoCaps   == [n \in Plugins |-> {}]
Nothing  == {}
=============================================================================
