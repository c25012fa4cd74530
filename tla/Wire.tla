-------------------------------- MODULE Wire --------------------------------
(***************************************************************************)
(* The formats a particle travels in: the message shuffle_write makes of a *)
(* name and its data, the batch of length-prefixed messages in the buffer  *)
(* of an NN queue, and the XN request list that hg_proc_rpcin_t writes and *)
(* reads.  A byte or a word is a number; 0 ends a C string and two zero    *)
(* words end an XN list.                                                   *)
(***************************************************************************)
EXTENDS Settings

uchar(n) == n % (UCHAR_MAX + 1)
Zeros(n) == [i \in 1..n |-> 0]

\* shuffle_write: the name, its end, the data, and the padding
Pack(name, data, extra) == name \o <<0>> \o data \o Zeros(extra)

\* the C string at the start of a buffer
CStr(buf) ==
  LET end == SelectInSeq(buf, LAMBDA b : b = 0)
  IN  IF end = 0 THEN buf ELSE SubSeq(buf, 1, end - 1)

\* "premature end of msg"
Torn == <<-1>>

\* nn_shuffler_enqueue: the length of the message precedes it, in one byte
EncodeNN(msgs) ==
  FlattenSeq([i \in DOMAIN msgs |-> <<uchar(Len(msgs[i]))>> \o msgs[i]])

\* Fault: the length byte is counted as part of the message.
DecodeShort(s) ==
  LET from[i \in 1..Len(s) + 1] ==
        IF i = Len(s) + 1 THEN <<>>
        ELSE IF i + s[i] - 1 > Len(s) THEN <<Torn>>
        ELSE <<SubSeq(s, i + 1, i + s[i] - 1)>> \o from[i + AtLeast(1, s[i])]
  IN  from[1]

\* nn_shuffler_write_rpc_handler
DecodeNN(s) ==
  LET from[i \in 1..Len(s) + 1] ==
        IF i = Len(s) + 1 THEN <<>>
        ELSE IF i + s[i] > Len(s) THEN <<Torn>>
        ELSE <<SubSeq(s, i + 1, i + s[i])>> \o from[i + s[i] + 1]
  IN  from[1]

\* hg_proc_rpcin_t: every request is <<datalen, type, src, dst>> and its data
EncodeXN(reqs) ==
  FlattenSeq([i \in DOMAIN reqs |->
    <<Len(reqs[i].data), reqs[i].type, reqs[i].src, reqs[i].dst>> \o reqs[i].data])
  \o <<0, 0>>

\* a list that ends too early; the error frees what has been decoded
TornReq == [type |-> -1, src |-> 0, dst |-> 0, data |-> <<>>]

DecodeXN(s) ==
  LET from[i \in 1..Len(s) + 1] ==
        IF i + 1 > Len(s) THEN <<TornReq>>
        ELSE IF s[i] = 0 /\ s[i + 1] = 0 THEN <<>>
        ELSE IF i + 3 + s[i] > Len(s) THEN <<TornReq>>
        ELSE <<[type |-> s[i + 1], src |-> s[i + 2], dst |-> s[i + 3],
                data |-> SubSeq(s, i + 4, i + 3 + s[i])]>>
             \o from[i + 4 + s[i]]
      reqs == from[1]
  IN  IF reqs # <<>> /\ Last(reqs) = TornReq THEN <<TornReq>> ELSE reqs

=============================================================================
