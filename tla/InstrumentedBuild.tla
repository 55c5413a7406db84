------------------------- MODULE InstrumentedBuild -------------------------
(* What the compile sessions of one cargo build promise, with nothing of    *)
(* how: every body leaves the compiler once and for good, with hooks when   *)
(* it is wanted to have them and without when it is not.  The one freedom   *)
(* is that a body rustc needs before it has finished its analysis may leave *)
(* without.  CompileSession implements this.                                *)
CONSTANTS
    Bodies,    \* the bodies of all crates of the build
    Early      \* those rustc may need while it analyses their crate

VARIABLES
    wanted,    \* the bodies that are to be instrumented
    code       \* per body: "absent", "plain" or "hooked"

buildVars == <<wanted, code>>

Outcomes(b) ==
    IF b \notin wanted THEN {"plain"}
    ELSE IF b \in Early THEN {"plain", "hooked"}
    ELSE {"hooked"}

BuildInit ==
    /\ wanted \in SUBSET Bodies
    /\ code = [b \in Bodies |-> "absent"]

Emit(b) ==
    /\ code[b] = "absent"
    /\ \E outcome \in Outcomes(b) : code' = [code EXCEPT ![b] = outcome]
    /\ UNCHANGED wanted

BuildNext == \E b \in Bodies : Emit(b)

BuildSpec == BuildInit /\ [][BuildNext]_buildVars
=============================================================================
