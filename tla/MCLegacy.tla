------------------------------ MODULE MCLegacy ------------------------------
(* The two parts of the legacy API with a shape of their own: the tree of   *)
(* address alteration sets and the lists of a web security URL policy.  A   *)
(* behaviour is about one of the two; the other keeps still.                 *)
EXTENDS AddressAlterationFolders, WebSecurityURLPolicy

VARIABLE part

\* Two entries with one identity if they are targets, one of them without a
\* comment, and a third.
SomeContents == {<<"x", 0>>, <<"x", 1>>, <<"y", 0>>}

SomeOrder == {<<<<"x", 0>>, <<"x", 1>>>>, <<<<"x", 0>>, <<"y", 0>>>>,
              <<<<"x", 1>>, <<"y", 0>>>>}

\* Nothing tells the sets of the tree apart, so one numbering of each shape
\* of the tree is enough: level by level, with those that are missing last.
Place(above, f) == CASE above[f] = Root -> 0
                     [] above[f] = Gone -> f
                     [] OTHER           -> above[f]
NumberedTrees ==
  {above \in [Folders -> Folders \union {Root, Gone}] :
     \A f, g \in Folders :
       f < g => Place(above, f) <= Place(above, g) /\ Place(above, f) < g}

LegacyInit ==
  /\ \/ part = "folders" /\ parent \in NumberedTrees /\ kind = "targets"
     \/ /\ part = "lists" /\ parent = [f \in Folders |-> Gone]
        /\ live = {} /\ routed = "all"
  /\ FoldersInit /\ WebSecurityInit

LegacyNext ==
  /\ \/ part = "folders" /\ FoldersNext /\ UNCHANGED webVars
     \/ part = "lists" /\ WebSecurityNext /\ UNCHANGED altVars
  /\ UNCHANGED part

\* The types of both parts, and that a request for a web security policy never
\* names one id twice (idAttr, provider/helpers.go:32).
LegacyTypeOK == FoldersTypeOK /\ WebSecurityTypeOK

LegacySpec == LegacyInit /\ [][LegacyNext]_<<altVars, webVars, part>>
=============================================================================
