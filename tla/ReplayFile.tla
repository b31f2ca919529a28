----------------------------- MODULE ReplayFile -----------------------------
(***************************************************************************)
(* Reading a replay file back: process_replay_file gives each record to    *)
(* the stream of its key (find_or_make_stream).  A record is               *)
(* [key, in, data, of]; one without data is the end of a stream; of is not *)
(* in the file, it is the lookup key of the stream that was recorded.      *)
(***************************************************************************)
EXTENDS Integers, Sequences, Functions

VARIABLES
  file,      \* the replay file
  rpos,      \* records read
  rlookup,   \* lookup: the stream of a key, by number
  rstreams   \* the streams made: the positions in the file of their packets

readVars == <<rpos, rlookup, rstreams>>

(* A record the file ends in the middle of, wherever it ends.              *)
Torn == [key |-> <<>>, in |-> FALSE, data |-> <<>>, of |-> <<>>]
EmptyMap == [x \in {} |-> 0]

ReadInit == rpos = 0 /\ rlookup = EmptyMap /\ rstreams = <<>>

(* replay_read succeeds: the file goes on with a whole record.             *)
NextRecord == file[rpos + 1]
Readable == IF rpos < Len(file) THEN NextRecord # Torn ELSE FALSE

ForgetNot(k) == rlookup
Forget(k) == [x \in DOMAIN rlookup \ {k} |-> rlookup[x]]

(* The record of an end takes its stream away, if there is one.            *)
ReadEnd ==
  /\ Readable /\ NextRecord.data = <<>>
  /\ rpos' = rpos + 1
  /\ rlookup' = Forget(NextRecord.key)
  /\ UNCHANGED <<file, rstreams>>

(* append_packet to the stream of the key.                                 *)
ReadKnown ==
  /\ Readable /\ NextRecord.data # <<>>
  /\ NextRecord.key \in DOMAIN rlookup
  /\ rpos' = rpos + 1
  /\ rstreams' = [rstreams EXCEPT ![rlookup[NextRecord.key]] = Append(@, rpos + 1)]
  /\ UNCHANGED <<file, rlookup>>

(* The same to a stream that is made for the key.                          *)
ReadNew ==
  /\ Readable /\ NextRecord.data # <<>>
  /\ NextRecord.key \notin DOMAIN rlookup
  /\ rpos' = rpos + 1
  /\ rstreams' = Append(rstreams, <<rpos + 1>>)
  /\ rlookup' = [x \in DOMAIN rlookup \cup {NextRecord.key} |->
                   IF x = NextRecord.key THEN Len(rstreams) + 1 ELSE rlookup[x]]
  /\ UNCHANGED file

ReadNext == ReadEnd \/ ReadKnown \/ ReadNew
ReadSpec == ReadInit /\ [][ReadNext]_<<file, readVars>>

(* Reading the file back gives every packet of it, up to a record that is  *)
(* cut off, to one stream, in order; two packets are in one stream if and  *)
(* only if they have the same key and no end of that key is between them.  *)
EndBetween(i, j) == \E e \in i .. j : file[e].data = <<>> /\ file[e].key = file[i].key
InStream(n, i) == \E x \in DOMAIN rstreams[n] : rstreams[n][x] = i
ReadBackWhole ==
  LET whole == {i \in 1 .. rpos : file[i].data # <<>>}
  IN /\ \A n \in DOMAIN rstreams : \A x, y \in DOMAIN rstreams[n] :
          /\ rstreams[n][x] \in whole
          /\ x < y => rstreams[n][x] < rstreams[n][y]
     /\ \A i, j \in whole : i <= j =>
          ((\E n \in DOMAIN rstreams : InStream(n, i) /\ InStream(n, j))
             <=> (file[i].key = file[j].key /\ ~EndBetween(i, j)))
     /\ ~Readable =>
          \A i \in DOMAIN file \ whole :
            file[i].data = <<>> \/ \E t \in 1 .. i : file[t] = Torn
=============================================================================
