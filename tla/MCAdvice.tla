------------------------------- MODULE MCAdvice -------------------------------
(* Instances of Advice for TLC. *)
EXTENDS Advice, TLC

CONSTANTS t1, t2

TwoTicks == {t1, t2}
LlmModes == {"OFF", "LLM"}
Fetching == {"never", "stalled", "always"}
Both     == {"reviews", "hints"}
AnyFault == {"llm", "contest", "crash", "start"}
=============================================================================
