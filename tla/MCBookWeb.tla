----------------------------- MODULE MCBookWeb -----------------------------
(***************************************************************************)
(* Three parts of the Book Smartz web process on small instances.  They    *)
(* share nothing, so a behaviour exercises one of them, chosen at the      *)
(* start, and the state spaces add up instead of multiplying.              *)
(***************************************************************************)
EXTENDS BookWeb

VARIABLE surface

webVars == <<surface, vars, catalogVars, diagnosticsVars>>

WebInit == /\ surface \in {"profile", "catalog", "diagnostics"}
           /\ Init /\ C!Init /\ D!Init

WebNext ==
    /\ UNCHANGED surface
    /\ \/ surface = "profile" /\ Next /\ UNCHANGED <<catalogVars, diagnosticsVars>>
       \/ surface = "catalog" /\ C!Next /\ UNCHANGED <<vars, diagnosticsVars>>
       \/ surface = "diagnostics" /\ D!Next /\ UNCHANGED <<vars, catalogVars>>

WebSpec == WebInit /\ [][WebNext]_webVars
=============================================================================
