--------------------------- MODULE MCConversation ---------------------------
(* Six models, two of them with a wire API their provider does not speak;  *)
(* lines that finish, meter, speak, call, fail and say nothing; client     *)
(* messages of every role, some of them out of place.                      *)
EXTENDS Conversation, TLC

MCModel(provider, api) ==
  [provider |-> provider, wire |-> api, inputPrice |-> 3, outputPrice |-> 1,
   maxInput |-> 2, maxOutput |-> 1]
MCModels ==
  {MCModel("openrouter", "chat_completions"), MCModel("zen", "messages"),
   MCModel("anthropic", "chat_completions"), MCModel("openai", "responses"),
   MCModel("gemini", "responses"), MCModel("openrouter", "messages")}

MCUsage(cost, input, output, read) ==
  [cost |-> cost, input |-> input, output |-> output, written |-> None, read |-> read]
MCSmall == MCUsage(None, <<1>>, <<1>>, <<1>>)
MCLarge == MCUsage(<<3>>, <<2>>, <<1>>, <<2>>)
MCDiscount == MCUsage(<<-1>>, <<1>>, <<0>>, <<-3>>)
MCHuge == MCUsage(<<9>>, <<7>>, <<1>>, None)
MCSilent == MCUsage(None, None, None, None)

MCEvent(usage, finish, text, calls) ==
  [kind |-> "event", usage |-> usage, finish |-> finish, text |-> text, calls |-> calls]
MCCall(index, id, args) == [index |-> index, id |-> id, args |-> args]
MCLines ==
  {[kind |-> "noise"], [kind |-> "done"], [kind |-> "broken"],
   MCEvent(None, "none", <<"hello">>, <<>>),
   MCEvent(<<MCSmall>>, "none", <<>>, <<>>),
   MCEvent(<<MCSilent>>, "none", <<>>, <<>>),
   MCEvent(<<MCDiscount>>, "none", <<"!">>, <<>>),
   MCEvent(<<MCHuge>>, "none", <<>>, <<>>),
   MCEvent(<<MCLarge>>, "stop", <<>>, <<>>),
   MCEvent(None, "length", <<>>, <<>>),
   MCEvent(<<MCSmall>>, "tool_calls", <<>>, <<MCCall(1, <<"b">>, <<"{}">>)>>),
   MCEvent(None, "none", <<>>, <<MCCall(0, <<"a">>, <<"{">>)>>),
   MCEvent(None, "none", <<>>, <<MCCall(0, <<>>, <<"}">>), MCCall(1, <<>>, <<>>)>>),
   MCEvent(None, "none", <<"?">>, <<MCCall(2, <<"c">>, <<"{}">>)>>)}

MCItem(kind, text, id, args) == [kind |-> kind, text |-> text, id |-> id, args |-> args]
MCBody(complete, items, usage) == [complete |-> complete, items |-> items, usage |-> usage]
MCBodies ==
  {MCBody(TRUE, <<MCItem("text", <<"hello">>, <<>>, <<>>),
                  MCItem("call", <<>>, <<"a">>, <<"{}">>),
                  MCItem("call", <<>>, <<"b">>, <<"{", "}">>)>>, MCSmall),
   MCBody(TRUE, <<MCItem("call", <<>>, <<"a">>, <<"7">>), MCItem("other", <<>>, <<>>, <<>>)>>, MCLarge),
   MCBody(TRUE, <<MCItem("call", <<>>, <<"a">>, <<"{">>)>>, MCSmall),
   MCBody(TRUE, <<MCItem("broken", <<>>, <<>>, <<>>)>>, MCSmall),
   MCBody(TRUE, <<>>, MCSilent),
   MCBody(FALSE, <<>>, MCSmall)}

MCParts == {"hello", "!", "?", "{", "}", "{}", "7", "a", "b", "c"}
MCJsonOf == (<<"{}">> :> "object") @@ (<<"{", "}">> :> "object") @@ (<<"7">> :> "other")

MCAsk(id, object) == [id |-> id, object |-> object]
MCInputs ==
  {Message("user", <<>>, NoId), Message("system", <<>>, NoId),
   Result(<<"a">>), Result(<<"b">>),
   Message("user", <<MCAsk(<<"a">>, TRUE)>>, NoId),
   Message("assistant", <<MCAsk(<<"a">>, TRUE)>>, NoId),
   Message("assistant", <<MCAsk(<<"a">>, TRUE), MCAsk(<<"b">>, TRUE)>>, NoId),
   Message("assistant", <<MCAsk(<<"a">>, TRUE), MCAsk(<<"a">>, TRUE)>>, NoId),
   Message("assistant", <<MCAsk(<<"a">>, FALSE)>>, NoId),
   Message("assistant", <<MCAsk(NoId, TRUE)>>, NoId)}
=============================================================================
