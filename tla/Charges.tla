------------------------------ MODULE Charges -------------------------------
(***************************************************************************)
(* What a turn may cost and what it did cost: ModelConfig::reservation and *)
(* ::validate (src/config.rs) and ProviderClient::usage_charge             *)
(* (src/provider.rs), in checked 64-bit arithmetic.                        *)
(*                                                                         *)
(* A model is a record [provider, wire, inputPrice, outputPrice, maxInput, *)
(* maxOutput].  Usage is what a provider reports, in any of the wire APIs' *)
(* names: each count is there or not.  An Option is a sequence of no or    *)
(* one element.                                                            *)
(***************************************************************************)
EXTENDS Integers

CONSTANTS
  MaxInt,       \* i64::MAX
  Million,      \* tokens a price is for (1 000 000)
  MostInput,    \* largest max_input_tokens (1 000 000)
  MostOutput,   \* largest max_output_tokens (32 768)
  MostCost      \* costs below this are believed (1 000 000 dollars)

ASSUME ChargesAssumption ==
  /\ MaxInt \in Nat /\ Million \in Nat \ {0} /\ MostCost \in 1..MaxInt
  /\ MostInput \in Nat /\ MostOutput \in Nat

None == <<>>
Some(n) == <<n>>
OrZero(option) == IF option = None THEN 0 ELSE option[1]

I64 == -MaxInt - 1 .. MaxInt

(* Division as the machine does it, towards zero.                          *)
Quotient(n) == IF n >= 0 THEN n \div Million ELSE -((-n) \div Million)

(* ceil of a price for a million tokens, or None when a step overflows.    *)
PerMillion(input, output, m) ==
  LET i == input * m.inputPrice
      o == output * m.outputPrice
  IN IF {i, o, i + o, i + o + Million - 1} \subseteq I64
     THEN Some(Quotient(i + o + Million - 1)) ELSE None

Reservation(m) == PerMillion(m.maxInput, m.maxOutput, m)

-----------------------------------------------------------------------------
Providers == {"openrouter", "openai", "gemini", "anthropic", "zen", "go"}
WireApis == {"chat_completions", "messages", "responses"}

(* The adapter infer picks, and the providers it knows an address of.      *)
AdapterOf(m) ==
  IF m.provider = "anthropic" \/ m.wire = "messages" THEN "messages" ELSE m.wire

HasEndpoint(m) ==
  \/ AdapterOf(m) = "messages" /\ m.provider \in {"anthropic", "zen", "go"}
  \/ AdapterOf(m) = "responses" /\ m.provider \in {"openai", "zen", "go"}
  \/ AdapterOf(m) = "chat_completions" /\ m.provider # "anthropic"

(* A fault: the numbers are validated, the wire API is not.                *)
NumbersValid(m) ==
  /\ m.inputPrice > 0 /\ m.outputPrice > 0
  /\ m.maxInput \in 1..MostInput /\ m.maxOutput \in 1..MostOutput
  /\ Reservation(m) # None

(* ModelConfig::validate.                                                  *)
ModelValid(m) ==
  /\ m.inputPrice > 0 /\ m.outputPrice > 0
  /\ m.maxInput \in 1..MostInput /\ m.maxOutput \in 1..MostOutput
  /\ m.wire = "messages" => m.provider \in {"anthropic", "zen", "go"}
  /\ m.wire = "responses" => m.provider \in {"openai", "zen", "go"}
  /\ Reservation(m) # None

-----------------------------------------------------------------------------
(* OpenRouter reports a cost, here in half micros; it is rounded up.       *)
Costed(m, u) ==
  m.provider = "openrouter" /\ u.cost # None /\ u.cost[1] >= 0 /\ u.cost[1] < MostCost

Counted(u) == u.input # None /\ u.output # None /\ u.input[1] >= 0 /\ u.output[1] >= 0

(* A fault: cached input is free.                                          *)
ChargeUncached(m, u) ==
  IF Costed(m, u) THEN Some((u.cost[1] + 1) \div 2)
  ELSE IF Counted(u) THEN PerMillion(u.input[1], u.output[1], m) ELSE None

(* usage_charge: the cost, or every token at its full price.               *)
UsageCharge(m, u) ==
  IF Costed(m, u) THEN Some((u.cost[1] + 1) \div 2)
  ELSE IF ~Counted(u) THEN None
  ELSE LET written == u.input[1] + OrZero(u.written)
           input == written + OrZero(u.read)
       IN IF {written, input} \subseteq I64 THEN PerMillion(input, u.output[1], m) ELSE None
=============================================================================
