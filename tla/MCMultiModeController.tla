------------------------ MODULE MCMultiModeController ------------------------
(***************************************************************************)
(* Two arms, a controllet for both and two for each of them.               *)
(***************************************************************************)
EXTENDS MultiModeController, TLC
CONSTANTS Left, Right, JointL, CartL, JointR, Dual, NotLoaded

MCArms        == {Left, Right}
MCControllets == {JointL, CartL, JointR, Dual}
MCResource    == (JointL :> {Left}) @@ (CartL :> {Left}) @@
                 (JointR :> {Right}) @@ (Dual :> {Left, Right})
MCStartSet    == <<Dual>>

\* Both arms, the other controllet of one arm, both again; a list with a
\* conflict, and one with a controllet that is not loaded.
MCRequests == {<<JointL, JointR>>, <<CartL>>, <<Dual>>, <<JointL, CartL>>,
               <<JointR, NotLoaded>>}
=============================================================================
