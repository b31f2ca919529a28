------------------------------ MODULE MCAnalysis ------------------------------
(* Two connections, two patterns, and texts for every way a pattern can    *)
(* end.                                                                    *)
EXTENDS Analysis

MCTexts == {"hash", "plain", "long", "huge", "blob", "bad"}
MCTextLen == [t \in MCTexts |-> CASE t = "hash" -> 40 [] t = "plain" -> 8
                                   [] t = "long" -> 30 [] t \in {"huge", "blob"} -> 5000
                                   [] t = "bad" -> 20]
Does(out, key, len) == [out |-> out, key |-> key, len |-> len]
Nothing == Does("none", "", 0)
(* The first pattern knows texts with a hash, the second all but two; its  *)
(* key is longer than the text "plain".  Neither knows "blob", and what    *)
(* the second copies of it does not fit in lookup_key.                     *)
MCPatterns ==
  << [t \in MCTexts |-> CASE t = "hash" -> Does("match", "by hash", 14) [] OTHER -> Nothing],
     [t \in MCTexts |-> CASE t = "bad" -> Does("error", "", 0) [] t = "blob" -> Nothing
                         [] OTHER -> Does("match", "by table", 12)] >>
Mention(parts, type) == [token |-> parts, type |-> type]
MCMentions ==
  [t \in MCTexts |->
     CASE t = "hash" -> <<Mention(<<"t1">>, "SELECT"), Mention(<<"t2">>, "SELECT")>>
       [] t = "long" -> <<Mention(<<"t1", "-", "x">>, "SELECT"), Mention(<<"-", "t1">>, "SELECT")>>
       [] t = "huge" -> <<Mention(<<"t1">>, "UPDATE")>>
       [] OTHER -> <<>>]

Pkt(key, kind, text) == [key |-> key, kind |-> kind, text |-> text]
MCKeys == {"A", "B"}
MCKinds == {Pkt(c, kind, "plain") : c \in MCKeys, kind \in {"Reply", "EOF"}}
           \cup {Pkt("A", "Query", "hash"), Pkt("A", "ClientMore", "plain"), Pkt("B", "Query", "long")}

Step(pkt, gap) == [pkt |-> pkt, gap |-> gap]
(* m queries of one connection that take 1, 2, .. m.                       *)
Series(m) == [i \in 1 .. (2 * m) |->
                IF i % 2 = 1 THEN Step(Pkt("A", "Query", "hash"), 0)
                             ELSE Step(Pkt("A", "EOF", "plain"), i \div 2)]
(* The texts one after the other, with their answers.                      *)
Answered(text) == << Step(Pkt("A", "Query", text), 0), Step(Pkt("A", "EOF", "plain"), 1) >>
Each(last) == Answered("plain") \o Answered("huge") \o Answered(last)
MCInputs ==
  {[n_slow |-> 1, script |-> <<>>, free |-> 5],
   [n_slow |-> 0, script |-> <<>>, free |-> 3],
   [n_slow |-> 2, script |-> Each("bad"), free |-> 0],
   [n_slow |-> 2, script |-> Each("blob"), free |-> 0]}
  \cup {[n_slow |-> 2, script |-> Series(m), free |-> 0] : m \in {2, 3, 19, 20, 21}}
=============================================================================
