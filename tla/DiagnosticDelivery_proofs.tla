---------------------- MODULE DiagnosticDelivery_proofs ----------------------
(***************************************************************************)
(* No record of a driver's report is lost on the phone, what its handle    *)
(* says is true, and nothing of one account reaches another's: for any     *)
(* accounts, bindings, records and limits, whatever fails and whenever the *)
(* app ends.                                                               *)
(***************************************************************************)
EXTENDS DiagnosticDelivery, WellFoundedInduction, TLAPS

Anyone == Owners \cup {NoOne}
Token == Anyone \X Nat
Mutation == [op : {"append", "remove", "quarantine"}, ids : SUBSET Numbers]
Binding ==
    [owner : Anyone, ended : BOOLEAN, memory : SUBSET Numbers, settled : SUBSET Numbers,
     chain : Seq(Mutation), read : [asked : BOOLEAN, rows : SUBSET Numbers],
     phase : {"idle", "looking", "unregistered", "registering", "sending"},
     token : Token, cache : Token,
     answer : [kind : {"none", "taken", "401"}, accepted : SUBSET Numbers, rejected : SUBSET Numbers],
     timer : {"none", "immediate", "retry"}, leaving : {"no", "waiting", "last"}]
Operation == [op : {"get", "set", "remove"}, token : Token, by : 0..MaxBindings]
Server == [valid : SUBSET (Owners \X Nat), issued : Nat, received : SUBSET (Numbers \X Owners),
           refused : SUBSET Numbers, late : SUBSET Anyone]
Answer == [kind : {"none", "taken", "401"}, accepted : SUBSET Numbers, rejected : SUBSET Numbers]
Statuses == {"none", "saving", "queued", "unsaved", "acknowledged", "refused", "pruned",
             "account_changed"}

(* What the parts of the state say of each other is said of a view of it: who  *)
(* made which record and what was decided about it, all of which only grows.   *)
View == [made |-> made, owner |-> [n \in Bindings |-> bindings[n].owner],
         received |-> server.received, refused |-> server.refused, excused |-> excused]

Known(w) == 1..Len(w.made)
Gone(w) == w.excused \cup w.refused \cup {pair[1] : pair \in w.received}

(* Records of one account.                                                     *)
Own(w, ids, o) == \A r \in ids : r \in Known(w) /\ w.owner[w.made[r]] = o

(* A mutation of a binding is about its own records, and removes only what is  *)
(* decided.                                                                   *)
Fair(w, e, o) == Own(w, e.ids, o) /\ (e.op # "append" => e.ids \subseteq Gone(w))

(* The server's answer says what the server did.                               *)
Truthful(w, answer, o) ==
    answer.kind = "taken" => /\ \A r \in answer.accepted : <<r, o>> \in w.received
                             /\ answer.rejected \subseteq w.refused

Sound(w, b) ==
    /\ b \in Binding /\ (b.owner = NoOne => b = Unbound)
    /\ Own(w, b.memory, b.owner) /\ Own(w, b.read.rows, b.owner)
    /\ b.settled \subseteq Known(w) /\ b.memory \cap b.settled = {}
    /\ \A i \in 1..Len(b.chain) : Fair(w, b.chain[i], b.owner)
    /\ b.cache[1] \in {NoOne, b.owner} /\ b.token[1] \in {NoOne, b.owner}
    /\ Truthful(w, b.answer, b.owner)

(* What the statuses s say of the reports made in binding n, b by now.         *)
Speaks(w, s, n, b) ==
    \A r \in Known(w) : w.made[r] = n =>
        /\ s[r] # "none" => r \in Reports
        /\ s[r] = "acknowledged" => <<r, b.owner>> \in w.received
        /\ s[r] = "refused" => r \in w.refused
        /\ s[r] \in {"saving", "queued", "unsaved"} => r \in b.memory

(* Until it is decided about, a record is in the database or on its way there. *)
Appending(b) ==
    {r \in Numbers : \E i \in 1..Len(b.chain) : b.chain[i].op = "append" /\ r \in b.chain[i].ids}

Accounted ==
    \A r \in Known(View) : \/ r \in disk \cup Gone(View)
                           \/ \E n \in Bindings : r \in Appending(bindings[n])

RecordsInv ==
    /\ bindings \in [Bindings -> Binding] /\ active \in {0} \cup Bindings
    /\ made \in Seq(Bindings) /\ Len(made) <= MaxRecords
    /\ status \in [Numbers -> Statuses] /\ disk \subseteq Known(View) /\ excused \subseteq Numbers
    /\ \A n \in Bindings : Sound(View, bindings[n]) /\ Speaks(View, status, n, bindings[n])
    /\ active # 0 => bindings[active].owner # NoOne
    /\ \A r \in Known(View) : bindings[made[r]].owner # NoOne
    /\ server.refused \subseteq Numbers
    /\ \A pair \in server.received : /\ pair \in Known(View) \X Owners
                                     /\ pair[2] = OwnerOf(pair[1])
    /\ Accounted

(* A credential stays with its account, stored, cached or on its way, and an   *)
(* operation on it is of a binding of that account.                           *)
Belongs(op, o, owner) ==
    /\ op \in Operation /\ op.token[1] \in {NoOne, o}
    /\ op.by # 0 => o # NoOne /\ owner[op.by] = o

AllBelong(ops, o, owner) == \A i \in 1..Len(ops) : Belongs(ops[i], o, owner)

SecureGood(s, owner) ==
    /\ s \in [Anyone -> [token : Token, ops : Seq(Operation)]]
    /\ \A o \in Anyone :
          /\ s[o].token[1] \in {NoOne, o}
          /\ AllBelong(s[o].ops, o, owner)

Account == [driver : Anyone, bearer : Anyone, due : Anyone, changed : BOOLEAN,
            suppress : BOOLEAN, fresh : BOOLEAN]
Logout == [phase : {"none", "reading", "leaving", "revoking", "revoked"},
           binding : {0} \cup Bindings, owner : Anyone, token : Token]

PartiesInv ==
    /\ server \in Server /\ account \in Account
    /\ logout \in Logout /\ logout.token[1] \in {NoOne, logout.owner}

SecureInv == SecureGood(secure, View.owner) /\ PartiesInv

DiagnosticInv == RecordsInv /\ SecureInv

--------------------------------------------------------------------------------
(* Sequences.                                                                 *)

LEMMA Appended ==
    ASSUME NEW S, NEW s \in Seq(S), NEW e \in S
    PROVE  /\ Append(s, e) \in Seq(S) /\ Len(Append(s, e)) = Len(s) + 1
           /\ \A i \in 1..Len(s) : Append(s, e)[i] = s[i]
           /\ Append(s, e)[Len(s) + 1] = e
           /\ Len(s) \in Nat
OBVIOUS

LEMMA WithoutHead ==
    ASSUME NEW S, NEW s \in Seq(S), s # <<>>
    PROVE  /\ Head(s) \in S /\ Tail(s) \in Seq(S) /\ Len(s) \in Nat \ {0}
           /\ Head(s) = s[1] /\ Len(Tail(s)) = Len(s) - 1
           /\ \A i \in 1..Len(Tail(s)) : Tail(s)[i] = s[i + 1] /\ i + 1 \in 1..Len(s)
OBVIOUS

(* What is said of every element, said of the longer and the shorter sequence. *)
LEMMA AllAppended ==
    ASSUME NEW S, NEW s \in Seq(S), NEW e \in S, NEW G, \A i \in 1..Len(s) : s[i] \in G, e \in G
    PROVE  \A i \in 1..Len(Append(s, e)) : Append(s, e)[i] \in G
<1> TAKE i \in 1..Len(Append(s, e))
<1>1. i \in 1..Len(s) \/ i = Len(s) + 1 BY Appended
<1> QED BY <1>1, Appended

LEMMA AllOfTail ==
    ASSUME NEW S, NEW s \in Seq(S), s # <<>>, NEW G, \A i \in 1..Len(s) : s[i] \in G
    PROVE  Head(s) \in G /\ \A i \in 1..Len(Tail(s)) : Tail(s)[i] \in G
<1>1. 1 \in 1..Len(s) BY WithoutHead
<1> QED BY <1>1, WithoutHead

--------------------------------------------------------------------------------
(* The outbox's operators.                                                    *)

(* What is true of an outbox stays true while the view of the world grows.     *)
LEMMA SoundLater ==
    ASSUME NEW w, NEW v, NEW b, Sound(w, b), Known(w) \subseteq Known(v),
           \A r \in Known(w) : v.owner[v.made[r]] = w.owner[w.made[r]],
           w.received \subseteq v.received, w.refused \subseteq v.refused,
           w.excused \subseteq v.excused
    PROVE  Sound(v, b)
<1>1. Gone(w) \subseteq Gone(v) BY DEF Gone
<1>2. \A ids, o : Own(w, ids, o) => Own(v, ids, o) BY DEF Own
<1>3. \A i \in 1..Len(b.chain) : Fair(v, b.chain[i], b.owner)
  BY <1>1, <1>2 DEF Sound, Fair
<1>4. Truthful(v, b.answer, b.owner) BY DEF Sound, Truthful
<1> QED BY <1>2, <1>3, <1>4 DEF Sound

LEMMA SoundGrows ==
    ASSUME NEW w, NEW v, NEW b, Sound(w, b), w.made = v.made, w.owner = v.owner,
           w.received \subseteq v.received, w.refused \subseteq v.refused,
           w.excused \subseteq v.excused
    PROVE  Sound(v, b)
BY SoundLater DEF Known

LEMMA ChainedIsSound ==
    ASSUME NEW w, NEW b, Sound(w, b), b.owner # NoOne, NEW op \in {"append", "remove", "quarantine"},
           NEW ids \in SUBSET Numbers, Own(w, ids, b.owner), op # "append" => ids \subseteq Gone(w)
    PROVE  /\ Sound(w, Chained(b, op, ids))
           /\ \E c \in Seq(Mutation) : Chained(b, op, ids) = [b EXCEPT !.chain = c]
<1> DEFINE e == [op |-> op, ids |-> ids]
           c == Append(b.chain, e)
<1>1. b \in Binding /\ b.chain \in Seq(Mutation) /\ e \in Mutation
  BY DEF Sound, Binding, Mutation
<1>2. CASE ids = {}
  <2>1. Chained(b, op, ids) = b /\ b = [b EXCEPT !.chain = b.chain]
    BY <1>1, <1>2 DEF Chained, Binding
  <2> QED BY <1>1, <2>1
<1>3. CASE ids # {}
  <2>1. Chained(b, op, ids) = [b EXCEPT !.chain = c] BY <1>3 DEF Chained
  <2>2. c \in Seq(Mutation) BY <1>1, Appended
  <2>3. Fair(w, e, b.owner) BY DEF Fair
  <2>4. \A i \in 1..Len(c) : Fair(w, c[i], b.owner)
    <3> DEFINE G == {m \in Mutation : Fair(w, m, b.owner)}
    <3>1. \A i \in 1..Len(b.chain) : b.chain[i] \in G BY <1>1 DEF Sound
    <3>2. e \in G BY <1>1, <2>3
    <3> HIDE DEF e
    <3>3. \A i \in 1..Len(c) : c[i] \in G BY <1>1, <3>1, <3>2, AllAppended
    <3> QED BY <3>3
  <2> HIDE DEF c, e
  <2> DEFINE d == [b EXCEPT !.chain = c]
  <2>5. d \in Binding BY <1>1, <2>2 DEF Binding
  <2>6. /\ d.owner = b.owner /\ d.memory = b.memory /\ d.read = b.read /\ d.settled = b.settled
        /\ d.cache = b.cache /\ d.token = b.token /\ d.answer = b.answer /\ d.chain = c
    BY <1>1 DEF Binding
  <2> HIDE DEF d
  <2>7. Sound(w, d) BY <2>4, <2>5, <2>6 DEF Sound
  <2> QED BY <2>1, <2>2, <2>7 DEF d
<1> QED BY <1>2, <1>3

(* Only an append is an append.                                                *)
LEMMA AppendingOfChained ==
    ASSUME NEW b \in Binding, NEW op, NEW ids \in SUBSET Numbers
    PROVE  Appending(Chained(b, op, ids)) = Appending(b) \cup (IF op = "append" THEN ids ELSE {})
<1> DEFINE e == [op |-> op, ids |-> ids]
           c == Append(b.chain, e)
<1>1. CASE ids = {} BY <1>1 DEF Chained
<1>2. CASE ids # {}
  <2>1. Chained(b, op, ids).chain = c BY <1>2 DEF Chained, Binding
  <2>2. b.chain \in Seq(Mutation \cup {e}) BY DEF Binding
  <2> HIDE DEF e
  <2>3. /\ Len(c) = Len(b.chain) + 1 /\ \A i \in 1..Len(b.chain) : c[i] = b.chain[i]
        /\ c[Len(b.chain) + 1] = e /\ Len(b.chain) \in Nat
    BY <2>2, Appended
  <2>4. 1..Len(c) = 1..Len(b.chain) \cup {Len(b.chain) + 1} BY <2>3
  <2>5. e.op = op /\ e.ids = ids BY DEF e
  <2> HIDE DEF c
  <2>6. ASSUME NEW r
        PROVE  (\E i \in 1..Len(c) : c[i].op = "append" /\ r \in c[i].ids)
               <=> \/ \E i \in 1..Len(b.chain) : b.chain[i].op = "append" /\ r \in b.chain[i].ids
                   \/ op = "append" /\ r \in ids
    BY <2>3, <2>4, <2>5
  <2> QED BY <2>1, <2>6 DEF Appending
<1> QED BY <1>1, <1>2

(* What leaves the chain with its head.                                        *)
LEMMA AppendingOfTail ==
    ASSUME NEW b \in Binding, b.chain # <<>>, NEW d, d.chain = Tail(b.chain)
    PROVE  /\ Head(b.chain).op # "append" => Appending(b) = Appending(d)
           /\ Appending(b) \subseteq Appending(d) \cup Head(b.chain).ids
<1>1. b.chain \in Seq(Mutation) BY DEF Binding
<1>2. /\ Head(b.chain) = b.chain[1] /\ Len(b.chain) \in Nat \ {0}
      /\ Len(d.chain) = Len(b.chain) - 1
      /\ \A i \in 1..Len(d.chain) : d.chain[i] = b.chain[i + 1] /\ i + 1 \in 1..Len(b.chain)
  BY <1>1, WithoutHead
<1>3. \A i \in 1..Len(b.chain) : i = 1 \/ (i - 1 \in 1..Len(d.chain) /\ (i - 1) + 1 = i)
  BY <1>2
<1>4. ASSUME NEW i \in 1..Len(b.chain)
      PROVE  b.chain[i] = Head(b.chain) \/ \E j \in 1..Len(d.chain) : d.chain[j] = b.chain[i]
  BY <1>2, <1>3
<1>5. \A j \in 1..Len(d.chain) : \E i \in 1..Len(b.chain) : d.chain[j] = b.chain[i]
  BY <1>2
<1>6. ASSUME NEW r \in Appending(b)
      PROVE  r \in Appending(d) \/ (r \in Head(b.chain).ids /\ Head(b.chain).op = "append")
  BY <1>4 DEF Appending
<1>7. Appending(d) \subseteq Appending(b) BY <1>5 DEF Appending
<1> QED BY <1>6, <1>7

(* Fields the outbox's contents do not depend on.                              *)
LEMMA TouchedIsSound ==
    ASSUME NEW w, NEW b, Sound(w, b), NEW d \in Binding, b.owner # NoOne,
           d.owner = b.owner, d.memory = b.memory, d.settled = b.settled, d.chain = b.chain,
           d.read \in {b.read, NoRead}, d.cache[1] \in {NoOne, b.owner},
           d.token[1] \in {NoOne, b.owner}, Truthful(w, d.answer, b.owner)
    PROVE  Sound(w, d) /\ Appending(d) = Appending(b)
<1>1. Own(w, d.read.rows, d.owner) BY DEF Sound, Own, NoRead
<1>2. Appending(d) = Appending(b) BY DEF Appending
<1> QED BY <1>1, <1>2 DEF Sound

LEMMA AsksKeeps ==
    ASSUME NEW w, NEW b, Sound(w, b), b.owner # NoOne, NEW override
    PROVE  /\ Sound(w, Asks(b, override)) /\ Asks(b, override).owner = b.owner
           /\ Asks(b, override).memory = b.memory
           /\ Appending(Asks(b, override)) = Appending(b)
<1> DEFINE d == [b EXCEPT !.timer = "immediate"]
<1>1. b \in Binding BY DEF Sound
<1>2. d \in Binding BY <1>1 DEF Binding
<1>3. /\ d.owner = b.owner /\ d.memory = b.memory /\ d.read = b.read /\ d.settled = b.settled
      /\ d.chain = b.chain /\ d.cache = b.cache /\ d.token = b.token /\ d.answer = b.answer
  BY <1>1 DEF Binding
<1>4. Asks(b, override) \in {b, d} BY DEF Asks
<1> HIDE DEF d
<1>5. Sound(w, d) /\ Appending(d) = Appending(b)
  <2>1. /\ b.cache[1] \in {NoOne, b.owner} /\ b.token[1] \in {NoOne, b.owner}
        /\ Truthful(w, b.answer, b.owner)
    BY DEF Sound
  <2> QED BY <1>2, <1>3, <2>1, TouchedIsSound
<1> QED BY <1>3, <1>4, <1>5

LEMMA FinishedKeeps ==
    ASSUME NEW w, NEW b, Sound(w, b), b.owner # NoOne, NEW ok
    PROVE  /\ Sound(w, Finished(b, ok)) /\ Finished(b, ok).owner = b.owner
           /\ Finished(b, ok).memory = b.memory
           /\ Appending(Finished(b, ok)) = Appending(b)
<1> DEFINE d == Finished(b, ok)
<1>1. b \in Binding BY DEF Sound
<1>2. PICK t \in {"none", "retry", "immediate"} :
         d = [b EXCEPT !.phase = "idle", !.token = NoToken, !.answer = NoAnswer, !.timer = t]
  BY DEF Finished
<1>3. NoToken \in Token /\ NoToken[1] = NoOne BY DEF NoToken, Token, Anyone
<1> HIDE DEF d
<1>4. d \in Binding BY <1>1, <1>2, <1>3 DEF Binding, NoAnswer
<1>5. /\ d.owner = b.owner /\ d.memory = b.memory /\ d.read = b.read /\ d.settled = b.settled
      /\ d.chain = b.chain /\ d.cache = b.cache /\ d.token = NoToken /\ d.answer = NoAnswer
  BY <1>1, <1>2 DEF Binding
<1>6. Truthful(w, d.answer, b.owner) BY <1>5 DEF Truthful, NoAnswer
<1>7. Sound(w, d) /\ Appending(d) = Appending(b)
  <2>1. b.cache[1] \in {NoOne, b.owner} BY DEF Sound
  <2> QED BY <1>3, <1>4, <1>5, <1>6, <2>1, TouchedIsSound
<1> QED BY <1>5, <1>7 DEF d

LEMMA UnboundIsTyped == Unbound \in Binding
BY DEF Unbound, Binding, NoRead, NoToken, NoAnswer, Token, Anyone

LEMMA UnboundIsSound ==
    ASSUME NEW w, NEW b \in Binding, b = [Unbound EXCEPT !.owner = b.owner]
    PROVE  Sound(w, b) /\ b.memory = {} /\ Appending(b) = {}
<1>1. /\ b.memory = {} /\ b.read = NoRead /\ b.settled = {} /\ b.chain = <<>>
      /\ b.cache = NoToken /\ b.token = NoToken /\ b.answer = NoAnswer
      /\ (b.owner = NoOne => b = Unbound)
  BY DEF Unbound
<1>2. Len(b.chain) = 0 BY <1>1
<1> QED BY <1>1, <1>2 DEF Sound, Own, NoRead, NoToken, NoAnswer, Truthful, Appending

LEMMA EndedKeeps ==
    ASSUME NEW w, NEW b, Sound(w, b), b.owner # NoOne
    PROVE  /\ Sound(w, Ended(b)) /\ Ended(b).owner = b.owner
           /\ Ended(b).memory = {} /\ Appending(Ended(b)) = Appending(b)
<1> DEFINE d == Ended(b)
<1>1. b \in Binding BY DEF Sound
<1>2. NoToken \in Token /\ NoToken[1] = NoOne BY DEF NoToken, Token, Anyone
<1>3. /\ d.owner = b.owner /\ d.memory = {} /\ d.read = NoRead /\ d.settled = {}
      /\ d.chain = b.chain /\ d.cache = NoToken /\ d.token \in {NoToken, b.token}
      /\ d.answer \in {NoAnswer, b.answer} /\ d.phase \in {"idle", "sending"}
      /\ d.ended = TRUE /\ d.timer = "none" /\ d.leaving = "no"
  BY DEF Ended, Unbound
<1>4. d \in Binding
  <2>1. Unbound \in Binding BY UnboundIsTyped
  <2>2. /\ b.owner \in Anyone /\ b.chain \in Seq(Mutation) /\ b.token \in Token
        /\ b.answer \in [kind : {"none", "taken", "401"}, accepted : SUBSET Numbers,
                          rejected : SUBSET Numbers]
    BY <1>1 DEF Binding
  <2>3. /\ NoRead \in [asked : BOOLEAN, rows : SUBSET Numbers]
        /\ NoAnswer \in [kind : {"none", "taken", "401"}, accepted : SUBSET Numbers,
                          rejected : SUBSET Numbers]
    BY DEF NoRead, NoAnswer
  <2>4. CASE b.answer.kind = "401" BY <1>2, <2>1, <2>2, <2>3, <2>4 DEF Binding, Ended
  <2>5. CASE b.answer.kind # "401" BY <1>2, <2>1, <2>2, <2>3, <2>5 DEF Binding, Ended
  <2> QED BY <2>4, <2>5
<1> HIDE DEF d
<1>5. Truthful(w, d.answer, b.owner) BY <1>3 DEF Sound, Truthful, NoAnswer
<1>6. Appending(d) = Appending(b) BY <1>3 DEF Appending
<1>7. Sound(w, d)
  BY <1>1, <1>2, <1>3, <1>4, <1>5 DEF Sound, Own, NoRead
<1> QED BY <1>3, <1>6, <1>7 DEF d

LEMMA OverflowIsHeld == ASSUME NEW memory PROVE Overflow(memory) \subseteq memory
BY DEF Overflow

LEMMA PrunedIsTyped ==
    ASSUME NEW b \in Binding
    PROVE  /\ Pruned(b) \in Binding /\ Pruned(b).owner = b.owner
           /\ Pruned(b).memory = b.memory \ Overflow(b.memory)
<1> DEFINE over == Overflow(b.memory)
           d == [b EXCEPT !.memory = @ \ over]
           e == [op |-> "remove", ids |-> over]
<1>1. over \in SUBSET Numbers BY OverflowIsHeld DEF Binding
<1>2. e \in Mutation BY <1>1 DEF Mutation
<1> HIDE DEF over
<1>3. d \in Binding /\ d.owner = b.owner /\ d.memory = b.memory \ over BY DEF Binding
<1>4. Pruned(b) = Chained(d, "remove", over) BY DEF Pruned, over
<1>5. Append(d.chain, e) \in Seq(Mutation) BY <1>2, <1>3, Appended DEF Binding
<1>6. Pruned(b) \in {d, [d EXCEPT !.chain = Append(d.chain, e)]} BY <1>4 DEF Chained
<1> HIDE DEF d, e
<1> QED BY <1>3, <1>5, <1>6 DEF Binding, over

LEMMA PrunedKeeps ==
    ASSUME NEW w, NEW b, Sound(w, b), b.owner # NoOne, Overflow(b.memory) \subseteq w.excused
    PROVE  /\ Sound(w, Pruned(b)) /\ Pruned(b).owner = b.owner
           /\ Pruned(b).memory = b.memory \ Overflow(b.memory)
           /\ Appending(Pruned(b)) = Appending(b)
<1> DEFINE over == Overflow(b.memory)
           d == [b EXCEPT !.memory = @ \ over]
<1>1. b \in Binding /\ over \subseteq b.memory BY OverflowIsHeld DEF Sound
<1>2. over \in SUBSET Numbers /\ Own(w, over, b.owner) /\ over \subseteq Gone(w)
  BY <1>1 DEF Sound, Own, Gone, Binding
<1> HIDE DEF over
<1>3. d \in Binding BY <1>1 DEF Binding
<1>4. /\ d.owner = b.owner /\ d.memory = b.memory \ over /\ d.read = b.read
      /\ d.settled = b.settled /\ d.chain = b.chain /\ d.cache = b.cache /\ d.token = b.token
      /\ d.answer = b.answer
  BY <1>1 DEF Binding
<1>5. Pruned(b) = Chained(d, "remove", over) BY DEF Pruned, over
<1> HIDE DEF d
<1>6. Sound(w, d) BY <1>3, <1>4 DEF Sound, Own
<1>7. Appending(d) = Appending(b) BY <1>4 DEF Appending
<1>8. /\ Sound(w, Pruned(b))
      /\ \E c \in Seq(Mutation) : Pruned(b) = [d EXCEPT !.chain = c]
  BY <1>2, <1>4, <1>5, <1>6, ChainedIsSound
<1>9. Pruned(b).owner = b.owner /\ Pruned(b).memory = b.memory \ over
  BY <1>3, <1>4, <1>8 DEF Binding
<1>10. Appending(Pruned(b)) = Appending(b)
  <2>1. Appending(Chained(d, "remove", over)) = Appending(d) \cup {}
    BY <1>2, <1>3, AppendingOfChained
  <2> QED BY <1>5, <1>7, <2>1
<1> QED BY <1>8, <1>9, <1>10 DEF over

--------------------------------------------------------------------------------
(* The statuses of reports.                                                   *)

LEMMA SpeaksGrows ==
    ASSUME NEW w, NEW v, NEW s, NEW n, NEW b, Speaks(w, s, n, b), w.made = v.made,
           w.received \subseteq v.received, w.refused \subseteq v.refused
    PROVE  Speaks(v, s, n, b)
BY DEF Speaks, Known

Outcomes == Statuses \ {"none", "saving"}

(* t is s after one result was given to the reports among ids made in n.        *)
Given(s, t, where, n, ids, new) ==
    \A r \in Numbers :
        t[r] = IF r \in ids \cap Reports /\ s[r] # "none" /\ where[r] = n /\ ~Terminal(s[r])
               THEN new ELSE s[r]

(* A result the view w vouches for, as an outbox b becomes d: what leaves its   *)
(* memory gets a last one.                                                    *)
Results(w, b, d, ids, new) ==
    /\ d.owner = b.owner
    /\ \A r \in b.memory : r \in d.memory \/ (r \in ids /\ new \notin {"queued", "unsaved"})
    /\ new = "acknowledged" => \A r \in ids : <<r, b.owner>> \in w.received
    /\ new = "refused" => ids \subseteq w.refused

LEMMA SaysSpeaks ==
    ASSUME NEW w, Known(w) \subseteq Numbers, NEW s \in [Numbers -> Statuses], NEW t, NEW n,
           NEW b, NEW d, NEW ids,
           NEW new \in Outcomes,
           Given(s, t, w.made, n, ids, new),
           Speaks(w, s, n, b), Results(w, b, d, ids, new)
    PROVE  /\ Speaks(w, t, n, d)
           /\ \A m, c : m # n /\ Speaks(w, s, m, c) => Speaks(w, t, m, c)
<1>3. \A m, c : m # n /\ Speaks(w, s, m, c) => Speaks(w, t, m, c)
  BY DEF Speaks, Given
<1>4. ASSUME NEW r \in Known(w), w.made[r] = n
      PROVE  /\ t[r] # "none" => r \in Reports
             /\ t[r] = "acknowledged" => <<r, d.owner>> \in w.received
             /\ t[r] = "refused" => r \in w.refused
             /\ t[r] \in {"saving", "queued", "unsaved"} => r \in d.memory
  <2>1. r \in Numbers BY <1>4
  <2>2. /\ s[r] # "none" => r \in Reports
        /\ s[r] = "acknowledged" => <<r, b.owner>> \in w.received
        /\ s[r] = "refused" => r \in w.refused
        /\ s[r] \in {"saving", "queued", "unsaved"} => r \in b.memory
    BY <1>4 DEF Speaks
  <2>3. s[r] \in Statuses BY <2>1
  <2>4. CASE r \in ids \cap Reports /\ s[r] # "none" /\ ~Terminal(s[r])
    <3>1. t[r] = new BY <1>4, <2>1, <2>4 DEF Given
    <3>2. r \in b.memory BY <2>2, <2>3, <2>4 DEF Terminal, Statuses
    <3> QED BY <3>1, <3>2, <2>4 DEF Results, Outcomes, Statuses
  <2>5. CASE ~(r \in ids \cap Reports /\ s[r] # "none" /\ ~Terminal(s[r]))
    <3>1. t[r] = s[r] BY <1>4, <2>1, <2>5 DEF Given
    <3>2. s[r] \in {"saving", "queued", "unsaved"} => r \in Reports /\ ~Terminal(s[r])
      BY <2>2 DEF Terminal
    <3> QED BY <2>2, <2>5, <3>1, <3>2 DEF Results
  <2> QED BY <2>4, <2>5
<1>5. Speaks(w, t, n, d) BY <1>4 DEF Speaks
<1> QED BY <1>3, <1>5

--------------------------------------------------------------------------------
(* One binding changes; nobody becomes another's.                              *)

OwnersStay == /\ UNCHANGED made /\ View'.owner = View.owner
              /\ excused \subseteq excused' /\ server.received \subseteq server'.received
              /\ server.refused \subseteq server'.refused

LEMMA OwnerStays ==
    ASSUME bindings \in [Bindings -> Binding], NEW n \in Bindings, NEW b, Put(n, b),
           b.owner = bindings[n].owner
    PROVE  /\ View'.owner = View.owner
           /\ bindings'[n] = b /\ \A m \in Bindings : m # n => bindings'[m] = bindings[m]
<1>1. bindings'[n] = b /\ \A m \in Bindings : m # n => bindings'[m] = bindings[m]
  BY DEF Put
<1>2. \A m \in Bindings : bindings'[m].owner = bindings[m].owner BY <1>1
<1> QED BY <1>1, <1>2 DEF View

LEMMA GoneGrows == ASSUME OwnersStay PROVE Gone(View) \subseteq Gone(View') /\ Known(View') = Known(View)
BY DEF OwnersStay, Gone, View, Known

LEMMA OneMoves ==
    ASSUME RecordsInv, NEW n \in Bindings, NEW b, Put(n, b), OwnersStay,
           b.owner = bindings[n].owner, active' \in {active, 0},
           \A pair \in server'.received \ server.received :
              pair \in Known(View) \X Owners /\ pair[2] = OwnerOf(pair[1]),
           server'.refused \subseteq Numbers, excused' \subseteq Numbers,
           disk' \subseteq Known(View), Sound(View', b), status' \in [Numbers -> Statuses],
           Speaks(View', status', n, b),
           \A m \in Bindings \ {n} : Speaks(View', status', m, bindings[m]),
           disk \subseteq disk' \cup Gone(View'),
           Appending(bindings[n]) \subseteq Appending(b) \cup disk' \cup Gone(View')
    PROVE  RecordsInv'
<1>1. bindings'[n] = b /\ \A m \in Bindings : m # n => bindings'[m] = bindings[m]
  BY OwnerStays DEF RecordsInv
<1>2. b \in Binding BY DEF Sound
<1>3. bindings' \in [Bindings -> Binding] /\ active' \in {0} \cup Bindings
  BY <1>2 DEF RecordsInv, Put
<1>4. made' = made /\ Known(View') = Known(View) BY GoneGrows DEF OwnersStay
<1>5. \A m \in Bindings : bindings'[m].owner = bindings[m].owner
  BY <1>1
<1>6. \A m \in Bindings : m # n => Sound(View', bindings[m])
  <2>1. /\ View.made = View'.made /\ View.owner = View'.owner /\ Known(View) = Known(View')
        /\ View.received \subseteq View'.received /\ View.refused \subseteq View'.refused
        /\ View.excused \subseteq View'.excused
    BY DEF OwnersStay, View, Known
  <2> QED BY <2>1, SoundGrows DEF RecordsInv
<1>7. \A m \in Bindings : Sound(View', bindings'[m]) /\ Speaks(View', status', m, bindings'[m])
  BY <1>1, <1>6
<1>8. active' # 0 => bindings'[active'].owner # NoOne BY <1>5 DEF RecordsInv
<1>9. \A r \in Known(View) : made[r] \in Bindings BY DEF RecordsInv, Known, View
<1>10. \A r \in Known(View) : bindings'[made'[r]].owner # NoOne /\ OwnerOf(r)' = OwnerOf(r)
  BY <1>4, <1>5, <1>9 DEF RecordsInv, OwnerOf
<1>11. \A pair \in server'.received : pair \in Known(View) \X Owners /\ pair[2] = bindings'[made'[pair[1]]].owner
  BY <1>10 DEF RecordsInv, OwnerOf
<1>12. ASSUME NEW r \in Known(View)
       PROVE  r \in disk' \cup Gone(View') \/ \E m \in Bindings : r \in Appending(bindings'[m])
  <2>1. CASE r \in disk \cup Gone(View) BY <2>1, GoneGrows
  <2>2. CASE \E m \in Bindings : r \in Appending(bindings[m]) BY <2>2, <1>1
  <2> QED BY <2>1, <2>2 DEF RecordsInv, Accounted
<1>13. Accounted' BY <1>4, <1>12 DEF Accounted
<1>14. Len(made') <= MaxRecords /\ made' \in Seq(Bindings) BY <1>4 DEF RecordsInv
<1> QED BY <1>3, <1>4, <1>7, <1>8, <1>10, <1>11, <1>13, <1>14 DEF RecordsInv, OwnerOf

(* A binding goes on; nothing is said or done about a record.                   *)
LEMMA OneGoesOn ==
    ASSUME RecordsInv, NEW n \in Bindings, NEW b, Put(n, b), UNCHANGED <<made, status, disk, excused>>,
           server'.received = server.received, server'.refused = server.refused,
           active' \in {active, 0}, Sound(View, b), b.owner = bindings[n].owner,
           b.memory = bindings[n].memory, Appending(b) = Appending(bindings[n])
    PROVE  RecordsInv' /\ OwnersStay
<1>1. View'.owner = View.owner BY OwnerStays DEF RecordsInv
<1>2. View' = View BY <1>1 DEF View
<1>3. OwnersStay BY <1>1 DEF OwnersStay
<1>4. Speaks(View, status, n, b) BY DEF RecordsInv, Speaks
<1>5. \A m \in Bindings \ {n} : Speaks(View, status, m, bindings[m]) BY DEF RecordsInv
<1>6. RecordsInv'
  BY <1>2, <1>3, <1>4, <1>5, OneMoves DEF RecordsInv
<1> QED BY <1>3, <1>6

(* Nothing of the records changes.                                             *)
LEMMA RecordsRest ==
    ASSUME RecordsInv, UNCHANGED <<bindings, made, status, disk, excused>>,
           server'.received = server.received, server'.refused = server.refused,
           active' \in {active, 0}
    PROVE  RecordsInv' /\ OwnersStay
<1>1. View' = View BY DEF View
<1>2. OwnersStay BY <1>1 DEF OwnersStay
<1> QED BY <1>1, <1>2 DEF RecordsInv, Accounted, OwnerOf

--------------------------------------------------------------------------------
(* The steps of the transport that say nothing of a record.                   *)

LEMMA Bound ==
    ASSUME RecordsInv, NEW n \in Bindings,
           \/ bindings[n].timer # "none" \/ bindings[n].phase # "idle" \/ bindings[n].chain # <<>>
           \/ bindings[n].read.asked \/ bindings[n].answer.kind # "none"
           \/ bindings[n].leaving # "no" \/ bindings[n].ended = FALSE \/ bindings[n].owner # NoOne
    PROVE  bindings[n].owner # NoOne /\ bindings[n].owner \in Owners
<1>1. bindings[n] # Unbound
  BY DEF Unbound, NoRead, NoAnswer
<1> QED BY <1>1 DEF RecordsInv, Sound, Binding, Anyone

(* A binding with other light fields.                                          *)
LEMMA OneTouched ==
    ASSUME RecordsInv, NEW n \in Bindings, bindings[n].owner # NoOne, NEW d \in Binding,
           d.owner = bindings[n].owner, d.memory = bindings[n].memory,
           d.settled = bindings[n].settled, d.chain = bindings[n].chain,
           d.read \in {bindings[n].read, NoRead},
           d.cache \in {bindings[n].cache, NoToken}, d.answer \in {bindings[n].answer, NoAnswer},
           d.token[1] \in {NoOne, bindings[n].owner}
    PROVE  Sound(View, d) /\ Appending(d) = Appending(bindings[n])
<1>1. Sound(View, bindings[n]) BY DEF RecordsInv
<1>2. d.cache[1] \in {NoOne, bindings[n].owner} BY <1>1 DEF Sound, NoToken
<1>3. Truthful(View, d.answer, bindings[n].owner) BY <1>1 DEF Sound, Truthful, NoAnswer
<1> QED BY <1>1, <1>2, <1>3, TouchedIsSound

(* ... that is the step of one.                                                *)
LEMMA TouchedGoesOn ==
    ASSUME RecordsInv, NEW n \in Bindings, bindings[n].owner # NoOne, NEW d \in Binding,
           d.owner = bindings[n].owner, d.memory = bindings[n].memory,
           d.settled = bindings[n].settled, d.chain = bindings[n].chain,
           d.read \in {bindings[n].read, NoRead},
           d.cache \in {bindings[n].cache, NoToken}, d.answer \in {bindings[n].answer, NoAnswer},
           d.token[1] \in {NoOne, bindings[n].owner},
           Put(n, d), UNCHANGED records, server'.received = server.received,
           server'.refused = server.refused, active' \in {active, 0}
    PROVE  RecordsInv' /\ OwnersStay
BY OneTouched, OneGoesOn DEF records

LEMMA FinishedGoesOn ==
    ASSUME RecordsInv, NEW n \in Bindings, bindings[n].owner # NoOne, NEW ok,
           \/ Put(n, Finished(bindings[n], ok)) \/ Put(n, Finished(DropsCache(bindings[n]), ok)),
           UNCHANGED <<records, server, active>>
    PROVE  RecordsInv' /\ OwnersStay
<1>1. Sound(View, bindings[n]) /\ bindings[n] \in Binding BY DEF RecordsInv
<1> DEFINE d == DropsCache(bindings[n])
<1>2. NoToken \in Token BY DEF NoToken, Token, Anyone
<1>3. /\ d \in Binding /\ d.owner = bindings[n].owner /\ d.memory = bindings[n].memory
      /\ d.settled = bindings[n].settled /\ d.chain = bindings[n].chain
      /\ d.read = bindings[n].read /\ d.cache = NoToken /\ d.answer = bindings[n].answer
      /\ d.token = bindings[n].token
  BY <1>1, <1>2 DEF DropsCache, Binding
<1> HIDE DEF d
<1>4. d.token[1] \in {NoOne, bindings[n].owner} BY <1>1, <1>3 DEF Sound
<1>5. Sound(View, d) /\ Appending(d) = Appending(bindings[n]) BY <1>3, <1>4, OneTouched
<1>6. ASSUME NEW b, Sound(View, b), b.owner = bindings[n].owner, b.memory = bindings[n].memory,
             Appending(b) = Appending(bindings[n]), Put(n, Finished(b, ok))
      PROVE  RecordsInv' /\ OwnersStay
  <2>1. /\ Sound(View, Finished(b, ok)) /\ Finished(b, ok).owner = b.owner
        /\ Finished(b, ok).memory = b.memory /\ Appending(Finished(b, ok)) = Appending(b)
    BY <1>6, FinishedKeeps
  <2> QED BY <1>6, <2>1, OneGoesOn DEF records
<1> QED BY <1>1, <1>3, <1>5, <1>6 DEF d

LEMMA HydrateFailsKeeps ==
    ASSUME RecordsInv, NEW n \in Bindings, HydrateFails(n)
    PROVE  RecordsInv' /\ OwnersStay
<1> DEFINE b == bindings[n]  d == [b EXCEPT !.read = NoRead]
<1>1. b \in Binding /\ b.owner # NoOne /\ b.token[1] \in {NoOne, b.owner}
  BY Bound DEF HydrateFails, RecordsInv, Sound
<1>2. d \in Binding BY <1>1 DEF Binding, NoRead
<1>3. /\ d.owner = b.owner /\ d.memory = b.memory /\ d.settled = b.settled /\ d.chain = b.chain
      /\ d.read = NoRead /\ d.cache = b.cache /\ d.answer = b.answer /\ d.token = b.token
  BY <1>1 DEF Binding
<1>4. Put(n, d) /\ UNCHANGED <<records, server, active>> BY DEF HydrateFails
<1> HIDE DEF d
<1> QED BY <1>1, <1>2, <1>3, <1>4, TouchedGoesOn

(* Other phases, tokens and timers.                                            *)
LEMMA PhaseKeeps ==
    ASSUME RecordsInv, NEW n \in Bindings, bindings[n].owner # NoOne,
           NEW b \in {bindings[n], [bindings[n] EXCEPT !.leaving = "last"]},
           NEW p \in {"looking", "unregistered", "registering"},
           NEW t \in {"none", "immediate", "retry"}, NEW token \in Token,
           token[1] \in {NoOne, bindings[n].owner},
           Put(n, [b EXCEPT !.phase = p, !.timer = t, !.token = token]),
           UNCHANGED <<records, active>>, server'.received = server.received,
           server'.refused = server.refused
    PROVE  RecordsInv' /\ OwnersStay
<1> DEFINE d == [b EXCEPT !.phase = p, !.timer = t, !.token = token]
<1>1. bindings[n] \in Binding BY DEF RecordsInv
<1>2. /\ b \in Binding /\ b.owner = bindings[n].owner /\ b.memory = bindings[n].memory
      /\ b.settled = bindings[n].settled /\ b.chain = bindings[n].chain
      /\ b.read = bindings[n].read /\ b.cache = bindings[n].cache
      /\ b.answer = bindings[n].answer
  BY <1>1 DEF Binding
<1>3. d \in Binding BY <1>2 DEF Binding
<1>4. /\ d.owner = b.owner /\ d.memory = b.memory /\ d.settled = b.settled /\ d.chain = b.chain
      /\ d.read = b.read /\ d.cache = b.cache /\ d.answer = b.answer /\ d.token = token
  BY <1>2 DEF Binding
<1> HIDE DEF d
<1> QED BY <1>2, <1>3, <1>4, TouchedGoesOn DEF d

LEMMA LookUpFailsKeeps ==
    ASSUME RecordsInv, NEW n \in Bindings, LookUpFails(n)
    PROVE  RecordsInv' /\ OwnersStay
<1> DEFINE b == bindings[n]
<1>1. b \in Binding /\ b.owner # NoOne /\ b.token[1] \in {NoOne, b.owner}
  BY Bound DEF LookUpFails, RecordsInv, Sound
<1>2. b.token \in Token /\ b.timer \in {"none", "immediate", "retry"} BY <1>1 DEF Binding
<1>3. [b EXCEPT !.phase = "unregistered"]
      = [b EXCEPT !.phase = "unregistered", !.timer = b.timer, !.token = b.token]
  BY <1>1 DEF Binding
<1> QED BY <1>1, <1>2, <1>3, PhaseKeeps DEF LookUpFails

LEMMA RegisterBeginsKeeps ==
    ASSUME RecordsInv, SecureInv, NEW n \in Bindings, RegisterBegins(n)
    PROVE  RecordsInv' /\ OwnersStay
<1> DEFINE b == bindings[n]
           token == <<account.bearer, server.issued + 1>>
<1>1. b \in Binding /\ b.owner # NoOne
  BY Bound DEF RegisterBegins, RecordsInv, Sound
<1>2. CASE ~MayRegister(b.owner)
  BY <1>1, <1>2, FinishedGoesOn DEF RegisterBegins
<1>3. CASE MayRegister(b.owner)
  <2>1. /\ Put(n, [b EXCEPT !.phase = "registering", !.token = token])
        /\ server'.received = server.received /\ server'.refused = server.refused
        /\ UNCHANGED <<records, active>>
    BY <1>3 DEF RegisterBegins, SecureInv, PartiesInv, Server
  <2>2. token \in Token /\ token[1] = b.owner BY <1>3 DEF MayRegister, SecureInv, PartiesInv, Account, Server, Token
  <2> HIDE DEF token
  <2>3. b.timer \in {"none", "immediate", "retry"} BY <1>1 DEF Binding
  <2>4. [b EXCEPT !.phase = "registering", !.token = token]
        = [b EXCEPT !.phase = "registering", !.timer = b.timer, !.token = token]
    BY <1>1 DEF Binding
  <2>5. Put(n, [b EXCEPT !.phase = "registering", !.timer = b.timer, !.token = token])
    BY <2>1, <2>4
  <2>6. b \in {bindings[n], [bindings[n] EXCEPT !.leaving = "last"]} OBVIOUS
  <2>7. token[1] \in {NoOne, bindings[n].owner} BY <2>2
  <2> HIDE DEF b
  <2> QED BY <1>1, <2>1, <2>2, <2>3, <2>5, <2>6, <2>7, PhaseKeeps DEF b
<1> QED BY <1>2, <1>3

--------------------------------------------------------------------------------
(* A batch and its answer.                                                    *)

(* What a step of binding n does to the view of the others.                    *)
LEMMA ViewOf ==
    ASSUME RecordsInv, NEW n \in Bindings, NEW b, Put(n, b), b.owner = bindings[n].owner,
           UNCHANGED made, excused \subseteq excused',
           server.received \subseteq server'.received, server.refused \subseteq server'.refused
    PROVE  /\ OwnersStay
           /\ View'.made = made' /\ View'.made = View.made /\ View'.owner = View.owner
           /\ View'.received = server'.received /\ View.received \subseteq View'.received
           /\ View'.refused = server'.refused /\ View.refused \subseteq View'.refused
           /\ View'.excused = excused' /\ View.excused \subseteq View'.excused
           /\ Known(View') = Known(View) /\ Known(View) \subseteq Numbers
           /\ Gone(View) \subseteq Gone(View')
<1>1. View'.owner = View.owner BY OwnerStays DEF RecordsInv
<1>2. OwnersStay BY <1>1 DEF OwnersStay
<1>3. Known(View') = Known(View) /\ Gone(View) \subseteq Gone(View') BY <1>2, GoneGrows
<1>4. Known(View) \subseteq Numbers
  <2>1. Len(made) \in Nat BY DEF RecordsInv
  <2> QED BY <2>1, DiagnosticAssumption DEF RecordsInv, Known, View, Numbers
<1> QED BY <1>1, <1>2, <1>3, <1>4 DEF View

(* The statuses a step gives to reports of binding n.                          *)
LEMMA SaysOfMine ==
    ASSUME NEW n \in Bindings, NEW v, v.made = made', Known(v) \subseteq Numbers, NEW s \in [Numbers -> Statuses],
           NEW b, Speaks(v, s, n, b), \A m \in Bindings \ {n} : Speaks(v, s, m, bindings[m]),
           NEW d, NEW ids,
           NEW new \in Outcomes,
           Results(v, b, d, ids, new)
    PROVE  /\ Says(s, n, ids, new) \in [Numbers -> Statuses]
           /\ Speaks(v, Says(s, n, ids, new), n, d)
           /\ \A m \in Bindings \ {n} : Speaks(v, Says(s, n, ids, new), m, bindings[m])
<1> DEFINE t == Says(s, n, ids, new)
<1>2. t = [r \in Numbers |->
             IF r \in ids \cap Reports /\ s[r] # "none" /\ v.made[r] = n /\ ~Terminal(s[r])
             THEN new ELSE s[r]]
  BY DEF Says
<1>4. t \in [Numbers -> Statuses]
  BY <1>2 DEF Outcomes
<1>5. Given(s, t, v.made, n, ids, new)
  BY <1>2 DEF Given
<1> HIDE DEF t
<1>3. /\ Speaks(v, t, n, d)
      /\ \A m, c : m # n /\ Speaks(v, s, m, c) => Speaks(v, t, m, c)
  BY <1>5, SaysSpeaks
<1> QED BY <1>4, <1>3 DEF t

(* What the server takes of a step, it takes under the account it was made in.  *)
ServerAdds ==
    /\ server.received \subseteq server'.received /\ server.refused \subseteq server'.refused
    /\ server' \in Server
    /\ \A pair \in server'.received \ server.received :
          pair \in Known(View) \X Owners /\ pair[2] = OwnerOf(pair[1])

LEMMA BatchKeeps ==
    ASSUME RecordsInv, SecureInv, NEW n \in Bindings, NEW before, Sound(View, before),
           bindings[n].owner # NoOne, before.owner = bindings[n].owner,
           before.memory = bindings[n].memory, Appending(before) = Appending(bindings[n]),
           NEW token \in Token, token[1] \in {NoOne, before.owner},
           NEW lost, BatchGoes(n, before, token, lost), UNCHANGED active
    PROVE  /\ RecordsInv' /\ OwnersStay
           /\ server' \in Server
<1> DEFINE over == Overflow(before.memory)
           p == Pruned(before)
           b == [p EXCEPT !.phase = "sending", !.token = token, !.cache = token, !.timer = "none"]
           batch == {r \in b.memory : Cardinality({q \in b.memory : q < r}) < BatchSize}
           v == View'
<1>1. /\ UNCHANGED <<made, disk>> /\ status' = Says(status, n, over, "pruned")
      /\ excused' = excused \cup over
  BY DEF BatchGoes
<1>2. over \subseteq before.memory /\ before \in Binding /\ over \subseteq Numbers
  BY OverflowIsHeld DEF Sound, Binding
<1>3. before.owner \in Owners BY <1>2 DEF Binding, Anyone
<1>4. PICK c :
        /\ Put(n, c)
        /\ \/ c = Finished(b, FALSE) /\ UNCHANGED server
           \/ \E answer \in Answer :
                /\ c = [b EXCEPT !.answer = answer]
                /\ \/ answer.kind = "401" /\ UNCHANGED server
                   \/ /\ answer.kind = "taken" /\ token \in server.valid
                      /\ answer.accepted \subseteq b.memory /\ answer.rejected \subseteq Numbers
                      /\ server' = [server EXCEPT
                            !.received = @ \cup {<<r, token[1]>> : r \in answer.accepted},
                            !.refused = @ \cup answer.rejected]
  <2>1. CASE lost /\ Put(n, Finished(b, FALSE)) /\ UNCHANGED server BY <2>1
  <2>2. CASE token \in server.valid
             /\ \E part \in SUBSET batch :
                   /\ server' = [server EXCEPT
                         !.received = @ \cup {<<r, token[1]>> : r \in part \ Refused},
                         !.refused = @ \cup (part \cap Refused)]
                   /\ Put(n, [b EXCEPT !.answer = [kind |-> "taken", accepted |-> part \ Refused,
                                                   rejected |-> part \cap Refused]])
    <3>1. PICK part \in SUBSET batch :
             /\ server' = [server EXCEPT
                   !.received = @ \cup {<<r, token[1]>> : r \in part \ Refused},
                   !.refused = @ \cup (part \cap Refused)]
             /\ Put(n, [b EXCEPT !.answer = [kind |-> "taken", accepted |-> part \ Refused,
                                             rejected |-> part \cap Refused]])
      BY <2>2
    <3> DEFINE answer == [kind |-> "taken", accepted |-> part \ Refused,
                          rejected |-> part \cap Refused]
    <3>2. part \subseteq b.memory OBVIOUS
    <3>3. b.memory \subseteq Numbers
      <4> HIDE DEF p
      <4>1. p.memory \subseteq before.memory /\ p \in Binding
        <5>1. p \in Binding /\ p.memory = before.memory \ over
          BY <1>2, PrunedIsTyped DEF p, over
        <5> QED BY <5>1
      <4> QED BY <4>1, <1>2 DEF Binding
    <3>4. answer \in Answer
      BY <3>2, <3>3 DEF Answer
    <3>5. answer.kind = "taken" /\ answer.accepted = part \ Refused /\ answer.rejected = part \cap Refused
      OBVIOUS
    <3>6. Put(n, [b EXCEPT !.answer = answer]) BY <3>1
    <3>7. answer.accepted \subseteq b.memory /\ answer.rejected \subseteq Numbers
      BY <3>2, <3>3, <3>5
    <3>8. server' = [server EXCEPT
             !.received = @ \cup {<<r, token[1]>> : r \in answer.accepted},
             !.refused = @ \cup answer.rejected]
      BY <3>1, <3>5
    <3> HIDE DEF answer, b
    <3> QED BY <2>2, <3>4, <3>5, <3>6, <3>7, <3>8
  <2>3. CASE Put(n, [b EXCEPT !.answer = [NoAnswer EXCEPT !.kind = "401"]]) /\ UNCHANGED server
    <3>1. /\ [NoAnswer EXCEPT !.kind = "401"] \in Answer
          /\ [NoAnswer EXCEPT !.kind = "401"].kind = "401"
      BY DEF NoAnswer, Answer
    <3> QED BY <2>3, <3>1
  <2> QED BY <2>1, <2>2, <2>3 DEF BatchGoes
<1>5. p \in Binding /\ p.owner = before.owner /\ p.memory = before.memory \ over
  BY <1>2, PrunedIsTyped
<1> HIDE DEF p, over
<1>6. /\ b \in Binding /\ b.owner = p.owner /\ b.memory = p.memory /\ b.settled = p.settled
      /\ b.chain = p.chain /\ b.read = p.read /\ b.cache = token /\ b.token = token
      /\ b.answer = p.answer
  BY <1>5 DEF Binding
<1> HIDE DEF b
<1>7. c.owner = before.owner
  <2>1. CASE c = Finished(b, FALSE) BY <1>5, <1>6, <2>1 DEF Finished, Binding
  <2>2. ASSUME NEW answer, c = [b EXCEPT !.answer = answer] PROVE c.owner = before.owner
    BY <1>5, <1>6, <2>2 DEF Binding
  <2> QED BY <1>4, <2>1, <2>2
<1>8. ASSUME NEW r \in before.memory
      PROVE  r \in Known(View) /\ r \in Numbers /\ OwnerOf(r) = before.owner
  <2>1. r \in Known(View) /\ View.owner[View.made[r]] = before.owner BY DEF Sound, Own
  <2>2. made[r] \in Bindings BY <2>1 DEF RecordsInv, Known, View
  <2> QED BY <1>2, <2>1, <2>2 DEF View, OwnerOf, Binding
<1>9. ServerAdds
  <2>1. CASE UNCHANGED server BY <2>1 DEF SecureInv, PartiesInv, ServerAdds
  <2>2. ASSUME NEW accepted, NEW rejected, token \in server.valid, accepted \subseteq before.memory,
               rejected \subseteq Numbers,
               server' = [server EXCEPT
                  !.received = @ \cup {<<r, token[1]>> : r \in accepted},
                  !.refused = @ \cup rejected]
        PROVE  ServerAdds
    <3>1. token[1] = before.owner BY <1>3, <2>2, DiagnosticAssumption DEF SecureInv, PartiesInv, Server
    <3>2. /\ server'.received = server.received \cup {<<r, token[1]>> : r \in accepted}
          /\ server'.refused = server.refused \cup rejected
      BY <2>2 DEF SecureInv, PartiesInv, Server
    <3>3. {<<r, token[1]>> : r \in accepted} \subseteq Numbers \X Owners
      BY <1>3, <1>8, <2>2, <3>1
    <3>4. server' \in Server
      BY <2>2, <3>3 DEF SecureInv, PartiesInv, Server
    <3>5. \A pair \in server'.received \ server.received :
             pair \in Known(View) \X Owners /\ pair[2] = OwnerOf(pair[1])
      BY <1>3, <1>8, <2>2, <3>1, <3>2
    <3> QED BY <3>2, <3>4, <3>5 DEF ServerAdds
  <2> QED BY <1>4, <1>5, <1>6, <2>1, <2>2
<1>10. /\ OwnersStay /\ v.made = made' /\ v.made = View.made /\ v.owner = View.owner
       /\ v.received = server'.received /\ View.received \subseteq v.received
       /\ v.refused = server'.refused /\ View.refused \subseteq v.refused
       /\ v.excused = excused' /\ View.excused \subseteq v.excused
       /\ Known(v) = Known(View) /\ Known(View) \subseteq Numbers
       /\ Gone(View) \subseteq Gone(v)
  BY <1>1, <1>4, <1>7, <1>9, ViewOf DEF ServerAdds
<1> HIDE DEF v
<1>11. Sound(v, before) BY <1>10, SoundGrows
<1>12. over \subseteq v.excused BY <1>1, <1>10
<1>13. Sound(v, p) /\ Appending(p) = Appending(before)
  BY <1>11, <1>12, PrunedKeeps DEF p, over
<1>14. Sound(v, b) /\ Appending(b) = Appending(p)
  <2>1. b.cache[1] \in {NoOne, p.owner} /\ b.token[1] \in {NoOne, p.owner} BY <1>5, <1>6
  <2>2. Truthful(v, b.answer, p.owner) BY <1>6, <1>13 DEF Sound
  <2>3. p.owner # NoOne BY <1>5
  <2> QED BY <1>6, <1>13, <2>1, <2>2, <2>3, TouchedIsSound
<1>15. Sound(v, c) /\ c.memory = before.memory \ over /\ Appending(c) = Appending(before)
  <2>1. CASE c = Finished(b, FALSE)
    <3>1. b.owner # NoOne BY <1>5, <1>6
    <3>2. /\ Sound(v, Finished(b, FALSE)) /\ Finished(b, FALSE).memory = b.memory
          /\ Appending(Finished(b, FALSE)) = Appending(b)
      BY <1>14, <3>1, FinishedKeeps
    <3> QED BY <1>5, <1>6, <1>13, <1>14, <2>1, <3>2
  <2>2. ASSUME NEW answer \in Answer,
               c = [b EXCEPT !.answer = answer], Truthful(v, answer, before.owner)
        PROVE  Sound(v, c) /\ c.memory = before.memory \ over /\ Appending(c) = Appending(before)
    <3>1. /\ c \in Binding /\ c.owner = b.owner /\ c.memory = b.memory /\ c.settled = b.settled
          /\ c.chain = b.chain /\ c.read = b.read /\ c.cache = token /\ c.token = token
          /\ c.answer = answer
      BY <1>6, <2>2 DEF Binding, Answer
    <3>2. Sound(v, c) /\ Appending(c) = Appending(b)
      <4>1. b.owner # NoOne /\ c.read \in {b.read, NoRead} BY <1>5, <1>6, <3>1
      <4>2. c.cache[1] \in {NoOne, b.owner} /\ c.token[1] \in {NoOne, b.owner}
        BY <1>5, <1>6, <3>1
      <4>3. Truthful(v, c.answer, b.owner) BY <1>5, <1>6, <2>2, <3>1
      <4> QED BY <1>14, <3>1, <4>1, <4>2, <4>3, TouchedIsSound
    <3> QED BY <1>5, <1>6, <1>13, <1>14, <3>1, <3>2
  <2>3. ASSUME NEW answer, answer.kind = "401" PROVE Truthful(v, answer, before.owner)
    BY <2>3 DEF Truthful
  <2>4. ASSUME NEW answer, token \in server.valid,
               server' = [server EXCEPT
                  !.received = @ \cup {<<r, token[1]>> : r \in answer.accepted},
                  !.refused = @ \cup answer.rejected]
        PROVE  Truthful(v, answer, before.owner)
    <3>1. token[1] = before.owner BY <1>3, <2>4, DiagnosticAssumption DEF SecureInv, PartiesInv, Server
    <3>2. /\ v.received = server.received \cup {<<r, token[1]>> : r \in answer.accepted}
          /\ v.refused = server.refused \cup answer.rejected
      BY <1>10, <2>4 DEF SecureInv, PartiesInv, Server
    <3> QED BY <3>1, <3>2 DEF Truthful
  <2> QED BY <1>4, <2>1, <2>2, <2>3, <2>4
<1>16. /\ status' \in [Numbers -> Statuses] /\ Speaks(v, status', n, c)
       /\ \A m \in Bindings \ {n} : Speaks(v, status', m, bindings[m])
  <2>1. \A m \in Bindings : Speaks(v, status, m, bindings[m])
    BY <1>10, SpeaksGrows DEF RecordsInv
  <2>2. Speaks(v, status, n, before) BY <2>1 DEF Speaks
  <2>3. Results(v, before, c, over, "pruned") /\ "pruned" \in Outcomes
    BY <1>7, <1>15 DEF Results, Outcomes, Statuses
  <2>4. status \in [Numbers -> Statuses] BY DEF RecordsInv
  <2> QED BY <1>1, <1>10, <2>1, <2>2, <2>3, <2>4, SaysOfMine
<1>17. RecordsInv'
  <2>1. excused' \subseteq Numbers /\ disk' \subseteq Known(View) /\ server'.refused \subseteq Numbers
    BY <1>1, <1>2, <1>9 DEF RecordsInv, ServerAdds, Server
  <2>2. disk \subseteq disk' /\ Appending(bindings[n]) \subseteq Appending(c) BY <1>1, <1>15
  <2> QED BY <1>4, <1>7, <1>9, <1>10, <1>15, <1>16, <2>1, <2>2, OneMoves DEF v, ServerAdds
<1> QED BY <1>9, <1>10, <1>17 DEF ServerAdds

(* The answer settles what the server took and what it refuses.                *)
LEMMA AnsweredKeeps ==
    ASSUME RecordsInv, NEW n \in Bindings, Answered(n)
    PROVE  RecordsInv' /\ OwnersStay
<1> DEFINE b == bindings[n]
           accepted == b.answer.accepted \cap b.memory
           rejected == b.answer.rejected \cap b.memory
           m == [b EXCEPT !.memory = @ \ accepted]
           d == [b EXCEPT !.memory = @ \ (accepted \cup rejected),
                          !.settled = @ \cup accepted \cup rejected]
           e == Chained(d, "remove", accepted)
           f == Chained(e, "quarantine", rejected)
           c == Finished(f, TRUE)
<1>1. /\ Put(n, c) /\ UNCHANGED <<made, disk, excused, active, server>>
      /\ status' = Says(Says(status, n, accepted, "acknowledged"), n, rejected, "refused")
      /\ b.answer.kind = "taken"
  BY DEF Answered, AnswerOf
<1>2. b \in Binding /\ Sound(View, b) /\ b.owner # NoOne
  BY <1>1, Bound DEF RecordsInv, Sound
<1>3. /\ \A r \in accepted : <<r, b.owner>> \in View.received
      /\ rejected \subseteq View.refused
      /\ accepted \subseteq Gone(View) /\ rejected \subseteq Gone(View)
  <2>1. /\ \A r \in accepted : <<r, b.owner>> \in View.received
        /\ rejected \subseteq View.refused
    BY <1>1, <1>2 DEF Sound, Truthful
  <2>2. \A r \in accepted : r \in {pair[1] : pair \in View.received}
    <3> TAKE r \in accepted
    <3>1. <<r, b.owner>> \in View.received /\ <<r, b.owner>>[1] = r BY <2>1
    <3> QED BY <3>1
  <2> QED BY <2>1, <2>2 DEF Gone
<1>4. /\ accepted \in SUBSET Numbers /\ rejected \in SUBSET Numbers
      /\ accepted \subseteq b.memory /\ rejected \subseteq b.memory
  BY <1>2 DEF Binding
<1>5. Own(View, accepted, b.owner) /\ Own(View, rejected, b.owner)
  BY <1>2, <1>4 DEF Sound, Own
<1> HIDE DEF accepted, rejected
<1>6. /\ d \in Binding /\ d.owner = b.owner /\ d.memory = b.memory \ (accepted \cup rejected)
      /\ d.settled = b.settled \cup accepted \cup rejected /\ d.chain = b.chain
      /\ d.read = b.read /\ d.cache = b.cache /\ d.token = b.token /\ d.answer = b.answer
  BY <1>2, <1>4 DEF Binding
<1>7. m.memory = b.memory \ accepted /\ m.owner = b.owner
  BY <1>2 DEF Binding
<1> HIDE DEF d, m
<1>8. Sound(View, d)
  BY <1>2, <1>4, <1>5, <1>6 DEF Sound, Own
<1>9. Appending(d) = Appending(b) BY <1>6 DEF Appending
<1>10. /\ Sound(View, e) /\ e.owner = b.owner /\ e.memory = d.memory
       /\ Appending(e) = Appending(d)
  <2>1. Sound(View, e) /\ \E s \in Seq(Mutation) : e = [d EXCEPT !.chain = s]
    <3>1. d.owner # NoOne /\ Own(View, accepted, d.owner) BY <1>2, <1>5, <1>6
    <3> QED BY <1>3, <1>4, <1>8, <3>1, ChainedIsSound
  <2>2. Appending(e) = Appending(d) \cup {} BY <1>4, <1>6, AppendingOfChained
  <2> HIDE DEF e
  <2> QED BY <1>6, <2>1, <2>2 DEF Binding
<1> HIDE DEF e
<1>11. /\ Sound(View, f) /\ f.owner = b.owner /\ f.memory = d.memory
       /\ Appending(f) = Appending(d)
  <2>1. Sound(View, f) /\ \E s \in Seq(Mutation) : f = [e EXCEPT !.chain = s]
    BY <1>2, <1>3, <1>4, <1>5, <1>10, ChainedIsSound
  <2>2. e \in Binding BY <1>10 DEF Sound
  <2>3. Appending(f) = Appending(e) \cup {} BY <1>4, <2>2, AppendingOfChained
  <2> HIDE DEF f
  <2> QED BY <1>10, <2>1, <2>2, <2>3 DEF Binding
<1> HIDE DEF f
<1>12. /\ Sound(View, c) /\ c.owner = b.owner /\ c.memory = d.memory
       /\ Appending(c) = Appending(b)
  <2>1. f.owner # NoOne BY <1>2, <1>11
  <2>2. /\ Sound(View, c) /\ c.owner = f.owner /\ c.memory = f.memory
        /\ Appending(c) = Appending(f)
    BY <1>11, <2>1, FinishedKeeps
  <2> QED BY <1>9, <1>11, <2>2
<1> HIDE DEF c
<1>13. /\ OwnersStay /\ View' = View /\ View.made = made' /\ Known(View) \subseteq Numbers
  <2>1. OwnersStay /\ View'.made = made' /\ View'.owner = View.owner /\ Known(View) \subseteq Numbers
    BY <1>1, <1>12, ViewOf
  <2> QED BY <1>1, <2>1 DEF View
<1>14. /\ Says(status, n, accepted, "acknowledged") \in [Numbers -> Statuses]
       /\ Speaks(View, Says(status, n, accepted, "acknowledged"), n, m)
       /\ \A k \in Bindings \ {n} :
             Speaks(View, Says(status, n, accepted, "acknowledged"), k, bindings[k])
  <2>1. Results(View, b, m, accepted, "acknowledged") /\ "acknowledged" \in Outcomes
    BY <1>3, <1>7 DEF Results, Outcomes, Statuses
  <2>2. status \in [Numbers -> Statuses] /\ \A k \in Bindings : Speaks(View, status, k, bindings[k])
    BY DEF RecordsInv
  <2> QED BY <1>13, <2>1, <2>2, SaysOfMine
<1>15. /\ status' \in [Numbers -> Statuses] /\ Speaks(View, status', n, c)
       /\ \A k \in Bindings \ {n} : Speaks(View, status', k, bindings[k])
  <2>1. Results(View, m, c, rejected, "refused") /\ "refused" \in Outcomes
    BY <1>3, <1>6, <1>7, <1>12 DEF Results, Outcomes, Statuses
  <2> QED BY <1>1, <1>13, <1>14, <2>1, SaysOfMine
<1>16. RecordsInv'
  BY <1>1, <1>12, <1>13, <1>15, OneMoves DEF RecordsInv
<1> QED BY <1>13, <1>16

(* The rows of an earlier start are taken over, but for the settled ones.       *)
LEMMA HydrateMergesKeeps ==
    ASSUME RecordsInv, NEW n \in Bindings, HydrateMerges(n)
    PROVE  RecordsInv' /\ OwnersStay
<1> DEFINE b == bindings[n]
<1>1. b \in Binding /\ Sound(View, b) /\ b.owner # NoOne
  BY Bound DEF HydrateMerges, RecordsInv, Sound
<1>2. \A r \in disk : r \in Known(View) /\ View.owner[View.made[r]] = OwnerOf(r)
  <2>1. \A r \in Known(View) : made[r] \in Bindings BY DEF RecordsInv, Known, View
  <2> QED BY <2>1 DEF RecordsInv, View, OwnerOf
<1>3. Own(View, Rows(b.owner), b.owner) /\ Own(View, b.read.rows, b.owner)
  BY <1>1, <1>2 DEF Own, Rows, Sound
<1>4. PICK rows \in {b.read.rows, Rows(b.owner)} :
        LET merged == [b EXCEPT !.read = NoRead, !.memory = @ \cup (rows \ b.settled)]
        IN /\ Put(n, Asks(Pruned(merged), FALSE)) \/ Put(n, Pruned(merged))
           /\ status' = Says(Says(status, n, rows \ b.settled, "queued"),
                             n, Overflow(merged.memory), "pruned")
           /\ excused' = excused \cup Overflow(merged.memory)
  BY DEF HydrateMerges, Unsettled
<1>5. UNCHANGED <<made, disk, active, server>> BY DEF HydrateMerges
<1> DEFINE new == rows \ b.settled
           merged == [b EXCEPT !.read = NoRead, !.memory = @ \cup new]
           over == Overflow(merged.memory)
           v == View'
<1>6. Known(View) \subseteq Numbers
  <2>1. Len(made) \in Nat BY DEF RecordsInv
  <2> QED BY <2>1, DiagnosticAssumption DEF RecordsInv, Known, View, Numbers
<1>7. Own(View, new, b.owner) /\ new \subseteq Numbers /\ new \cap b.settled = {}
  BY <1>3, <1>6 DEF Own
<1> HIDE DEF new
<1>8. /\ merged \in Binding /\ merged.owner = b.owner /\ merged.memory = b.memory \cup new
      /\ merged.settled = b.settled /\ merged.chain = b.chain /\ merged.read = NoRead
      /\ merged.cache = b.cache /\ merged.token = b.token /\ merged.answer = b.answer
  BY <1>1, <1>7 DEF Binding, NoRead
<1> HIDE DEF merged
<1>9. over \subseteq merged.memory /\ over \subseteq Numbers
  BY <1>8, OverflowIsHeld DEF Binding
<1>10. Sound(View, merged)
  BY <1>1, <1>7, <1>8 DEF Sound, Own, NoRead
<1>11. PICK c : Put(n, c) /\ c \in {Asks(Pruned(merged), FALSE), Pruned(merged)}
  BY <1>4 DEF merged, new
<1>12. status' = Says(Says(status, n, new, "queued"), n, over, "pruned") /\ excused' = excused \cup over
  BY <1>4 DEF merged, new, over
<1>13. c.owner = b.owner
  BY <1>8, <1>11, PrunedIsTyped DEF Asks, Binding
<1>14. /\ OwnersStay /\ v.made = made' /\ v.made = View.made /\ v.owner = View.owner
       /\ v.received = server'.received /\ View.received \subseteq v.received
       /\ v.refused = server'.refused /\ View.refused \subseteq v.refused
       /\ v.excused = excused' /\ View.excused \subseteq v.excused
       /\ Known(v) = Known(View) /\ Known(View) \subseteq Numbers
       /\ Gone(View) \subseteq Gone(v)
  BY <1>5, <1>11, <1>12, <1>13, ViewOf
<1> HIDE DEF v, over
<1>15. Sound(v, merged) BY <1>10, <1>14, SoundGrows
<1>16. over \subseteq v.excused BY <1>12, <1>14
<1>17. /\ Sound(v, Pruned(merged)) /\ Pruned(merged).owner = merged.owner
       /\ Pruned(merged).memory = merged.memory \ over
       /\ Appending(Pruned(merged)) = Appending(merged)
  BY <1>1, <1>8, <1>15, <1>16, PrunedKeeps DEF over
<1>18. /\ Sound(v, c) /\ c.memory = merged.memory \ over /\ Appending(c) = Appending(b)
  <2>1. Appending(merged) = Appending(b) BY <1>8 DEF Appending
  <2>2. /\ Sound(v, Asks(Pruned(merged), FALSE))
        /\ Asks(Pruned(merged), FALSE).memory = Pruned(merged).memory
        /\ Appending(Asks(Pruned(merged), FALSE)) = Appending(Pruned(merged))
    BY <1>1, <1>8, <1>17, AsksKeeps
  <2> QED BY <1>11, <1>17, <2>1, <2>2
<1>19. /\ Says(status, n, new, "queued") \in [Numbers -> Statuses]
       /\ Speaks(v, Says(status, n, new, "queued"), n, merged)
       /\ \A k \in Bindings \ {n} : Speaks(v, Says(status, n, new, "queued"), k, bindings[k])
  <2>1. \A k \in Bindings : Speaks(v, status, k, bindings[k])
    BY <1>14, SpeaksGrows DEF RecordsInv
  <2>2. Results(v, b, merged, new, "queued") /\ "queued" \in Outcomes
    BY <1>8 DEF Results, Outcomes, Statuses
  <2>3. status \in [Numbers -> Statuses] BY DEF RecordsInv
  <2> QED BY <1>14, <2>1, <2>2, <2>3, SaysOfMine
<1>20. /\ status' \in [Numbers -> Statuses] /\ Speaks(v, status', n, c)
       /\ \A k \in Bindings \ {n} : Speaks(v, status', k, bindings[k])
  <2>1. Results(v, merged, c, over, "pruned") /\ "pruned" \in Outcomes
    BY <1>8, <1>13, <1>18 DEF Results, Outcomes, Statuses
  <2> QED BY <1>12, <1>14, <1>19, <2>1, SaysOfMine
<1>21. RecordsInv'
  <2>1. excused' \subseteq Numbers /\ disk' \subseteq Known(View)
    BY <1>5, <1>9, <1>12 DEF RecordsInv
  <2>2. /\ \A pair \in server'.received \ server.received :
              pair \in Known(View) \X Owners /\ pair[2] = OwnerOf(pair[1])
        /\ server'.refused \subseteq Numbers
    BY <1>5 DEF RecordsInv
  <2> QED BY <1>5, <1>11, <1>13, <1>14, <1>18, <1>20, <2>1, <2>2, OneMoves DEF v
<1> QED BY <1>14, <1>21

(* The head of the chain leaves it.                                            *)
LEMMA TailKeeps ==
    ASSUME NEW w, NEW b, Sound(w, b), b.chain # <<>>, b.owner # NoOne
    PROVE  LET d == [b EXCEPT !.chain = Tail(@)]
           IN /\ Sound(w, d) /\ d.owner = b.owner /\ d.memory = b.memory
              /\ Head(b.chain) \in Mutation /\ Fair(w, Head(b.chain), b.owner)
              /\ Head(b.chain).op # "append" => Appending(b) = Appending(d)
              /\ Appending(b) \subseteq Appending(d) \cup Head(b.chain).ids
<1> DEFINE d == [b EXCEPT !.chain = Tail(@)]
           t == Tail(b.chain)
           G == {e \in Mutation : Fair(w, e, b.owner)}
<1>1. b \in Binding /\ b.chain \in Seq(Mutation) BY DEF Sound, Binding
<1>2. Head(b.chain) \in Mutation /\ t \in Seq(Mutation) BY <1>1, WithoutHead
<1>3. \A i \in 1..Len(b.chain) : b.chain[i] \in G
  BY <1>1 DEF Sound
<1>4. Head(b.chain) \in G /\ \A i \in 1..Len(t) : t[i] \in G
  <2> HIDE DEF G
  <2> QED BY <1>1, <1>3, AllOfTail
<1> HIDE DEF t
<1>5. /\ d \in Binding /\ d.owner = b.owner /\ d.memory = b.memory /\ d.settled = b.settled
      /\ d.chain = t /\ d.read = b.read /\ d.cache = b.cache /\ d.token = b.token
      /\ d.answer = b.answer
  BY <1>1, <1>2 DEF Binding, t
<1> HIDE DEF d
<1>6. Sound(w, d) BY <1>4, <1>5 DEF Sound
<1>7. /\ Head(b.chain).op # "append" => Appending(b) = Appending(d)
      /\ Appending(b) \subseteq Appending(d) \cup Head(b.chain).ids
  BY <1>1, <1>5, AppendingOfTail DEF t
<1> QED BY <1>4, <1>5, <1>6, <1>7 DEF d

(* The database takes a mutation: it keeps the newest of the account.           *)
LEMMA StorageCommitsKeeps ==
    ASSUME RecordsInv, NEW n \in Bindings, StorageCommits(n)
    PROVE  RecordsInv' /\ OwnersStay
<1> DEFINE b == bindings[n]
           head == Head(b.chain)
           mine == {r \in disk \cup head.ids : OwnerOf(r) = b.owner}
           d == [b EXCEPT !.chain = Tail(@)]
           v == View'
<1>1. b \in Binding /\ Sound(View, b) /\ b.owner # NoOne /\ b.chain # <<>>
  BY Bound DEF StorageCommits, RecordsInv, Sound
<1>2. Put(n, d) /\ UNCHANGED <<made, active, server>>
  BY DEF StorageCommits
<1>3. /\ Sound(View, d) /\ d.owner = b.owner /\ d.memory = b.memory
      /\ head \in Mutation /\ Fair(View, head, b.owner)
      /\ head.op # "append" => Appending(b) = Appending(d)
      /\ Appending(b) \subseteq Appending(d) \cup head.ids
  BY <1>1, TailKeeps
<1> HIDE DEF d
<1>4. /\ head.ids \subseteq Known(View) /\ head.ids \subseteq Numbers
      /\ \A r \in head.ids : OwnerOf(r) = b.owner
  <2>1. \A r \in Known(View) : made[r] \in Bindings BY DEF RecordsInv, Known, View
  <2>2. \A r \in head.ids : r \in Known(View) /\ View.owner[View.made[r]] = b.owner
    BY <1>3 DEF Fair, Own
  <2> QED BY <1>3, <2>1, <2>2 DEF Mutation, View, OwnerOf
<1>5. \/ /\ head.op = "append"
         /\ disk' = (disk \ mine) \cup Newest(MaxKept, mine)
         /\ excused' = excused \cup (mine \ disk')
         /\ status' = Says(status, n, head.ids, "queued")
      \/ /\ head.op # "append" /\ disk' = disk \ head.ids /\ UNCHANGED <<excused, status>>
  BY DEF StorageCommits
<1>6. Known(View) \subseteq Numbers
  <2>1. Len(made) \in Nat BY DEF RecordsInv
  <2> QED BY <2>1, DiagnosticAssumption DEF RecordsInv, Known, View, Numbers
<1>7. mine \subseteq Known(View) /\ Newest(MaxKept, mine) \subseteq mine
  BY <1>4 DEF Newest, RecordsInv
<1>8. disk' \subseteq Known(View) /\ excused \subseteq excused' /\ excused' \subseteq Numbers
  <2>1. disk \subseteq Known(View) /\ excused \subseteq Numbers BY DEF RecordsInv
  <2> HIDE DEF mine, head
  <2> QED BY <1>5, <1>6, <1>7, <2>1
<1>9. /\ OwnersStay /\ v.made = made' /\ v.made = View.made /\ v.owner = View.owner
      /\ v.received = server'.received /\ View.received \subseteq v.received
      /\ v.refused = server'.refused /\ View.refused \subseteq v.refused
      /\ v.excused = excused' /\ View.excused \subseteq v.excused
      /\ Known(v) = Known(View) /\ Gone(View) \subseteq Gone(v)
  BY <1>2, <1>3, <1>8, ViewOf
<1> HIDE DEF v
<1>10. Sound(v, d) BY <1>3, <1>9, SoundGrows
<1>11. excused' \subseteq Gone(v) BY <1>9 DEF Gone
<1>12. disk \subseteq disk' \cup Gone(v) /\ Appending(b) \subseteq Appending(d) \cup disk' \cup Gone(v)
  <2>1. CASE head.op = "append"
    <3>1. mine \subseteq disk' \cup excused' BY <1>5, <2>1
    <3>2. head.ids \subseteq mine BY <1>4
    <3>3. disk \ mine \subseteq disk' BY <1>5, <2>1
    <3> HIDE DEF mine, head
    <3> QED BY <1>3, <1>11, <3>1, <3>2, <3>3
  <2>2. CASE head.op # "append"
    <3>1. head.ids \subseteq Gone(v) BY <1>3, <1>9, <2>2 DEF Fair
    <3> QED BY <1>3, <1>5, <2>2, <3>1
  <2> QED BY <2>1, <2>2
<1>13. /\ status' \in [Numbers -> Statuses] /\ Speaks(v, status', n, d)
       /\ \A k \in Bindings \ {n} : Speaks(v, status', k, bindings[k])
  <2>1. \A k \in Bindings : Speaks(v, status, k, bindings[k])
    BY <1>9, SpeaksGrows DEF RecordsInv
  <2>2. status \in [Numbers -> Statuses] BY DEF RecordsInv
  <2>3. Results(v, b, d, head.ids, "queued") /\ "queued" \in Outcomes
    BY <1>3 DEF Results, Outcomes, Statuses
  <2>4. CASE status' = status BY <1>3, <2>1, <2>2, <2>4 DEF Speaks
  <2>5. CASE status' = Says(status, n, head.ids, "queued")
    BY <1>6, <1>9, <2>1, <2>2, <2>3, <2>5, SaysOfMine
  <2> QED BY <1>5, <2>4, <2>5
<1>14. RecordsInv'
  <2>1. server'.refused \subseteq Numbers BY <1>2 DEF RecordsInv
  <2> QED BY <1>2, <1>3, <1>8, <1>9, <1>10, <1>12, <1>13, <2>1, OneMoves DEF v
<1> QED BY <1>9, <1>14

(* A mutation fails; a record that could not be saved is reported as such.      *)
LEMMA StorageFailsKeeps ==
    ASSUME RecordsInv, NEW n \in Bindings, StorageFails(n)
    PROVE  RecordsInv' /\ OwnersStay
<1> DEFINE b == bindings[n]
           head == Head(b.chain)
           d == [b EXCEPT !.chain = Tail(@)]
           v == View'
<1>1. b \in Binding /\ Sound(View, b) /\ b.owner # NoOne /\ b.chain # <<>>
  BY Bound DEF StorageFails, RecordsInv, Sound
<1>2. /\ Sound(View, d) /\ d.owner = b.owner /\ d.memory = b.memory
      /\ head \in Mutation /\ Fair(View, head, b.owner)
      /\ head.op # "append" => Appending(b) = Appending(d)
      /\ Appending(b) \subseteq Appending(d) \cup head.ids
  BY <1>1, TailKeeps
<1>3. PICK c \in {b, d} : Put(n, c)
  <2>1. bindings = [bindings EXCEPT ![n] = b] BY DEF RecordsInv
  <2> QED BY <2>1 DEF StorageFails, Put
<1>4. /\ UNCHANGED <<made, disk, active, server>>
      /\ \/ /\ head.op = "append" /\ status' = Says(status, n, head.ids, "unsaved")
            /\ excused' = excused \cup head.ids
         \/ head.op # "append" /\ UNCHANGED <<status, excused>>
  BY DEF StorageFails
<1> HIDE DEF d, head
<1>5. head.ids \subseteq Numbers BY <1>2 DEF Mutation
<1>6. excused \subseteq excused' /\ excused' \subseteq Numbers BY <1>4, <1>5 DEF RecordsInv
<1>7. /\ c.owner = b.owner /\ c.memory = b.memory /\ Sound(View, c)
      /\ Appending(b) \subseteq Appending(c) \cup (IF head.op = "append" THEN head.ids ELSE {})
  BY <1>1, <1>2, <1>3
<1>8. /\ OwnersStay /\ v.made = made' /\ v.made = View.made /\ v.owner = View.owner
      /\ v.received = server'.received /\ View.received \subseteq v.received
      /\ v.refused = server'.refused /\ View.refused \subseteq v.refused
      /\ v.excused = excused' /\ View.excused \subseteq v.excused
      /\ Known(v) = Known(View) /\ Known(View) \subseteq Numbers /\ Gone(View) \subseteq Gone(v)
  BY <1>3, <1>4, <1>6, <1>7, ViewOf
<1> HIDE DEF v
<1>9. Sound(v, c) BY <1>7, <1>8, SoundGrows
<1>10. Appending(b) \subseteq Appending(c) \cup disk' \cup Gone(v)
  <2>1. head.op = "append" => head.ids \subseteq Gone(v) BY <1>4, <1>8 DEF Gone
  <2> QED BY <1>7, <2>1
<1>11. /\ status' \in [Numbers -> Statuses] /\ Speaks(v, status', n, c)
       /\ \A k \in Bindings \ {n} : Speaks(v, status', k, bindings[k])
  <2>1. \A k \in Bindings : Speaks(v, status, k, bindings[k])
    BY <1>8, SpeaksGrows DEF RecordsInv
  <2>2. status \in [Numbers -> Statuses] BY DEF RecordsInv
  <2>3. Results(v, b, c, head.ids, "unsaved") /\ "unsaved" \in Outcomes
    BY <1>7 DEF Results, Outcomes, Statuses
  <2>4. CASE status' = status BY <1>7, <2>1, <2>2, <2>4 DEF Speaks
  <2>5. CASE status' = Says(status, n, head.ids, "unsaved")
    BY <1>8, <2>1, <2>2, <2>3, <2>5, SaysOfMine
  <2> QED BY <1>4, <2>4, <2>5
<1>12. RecordsInv'
  <2>1. server'.refused \subseteq Numbers /\ disk' \subseteq Known(View) BY <1>4 DEF RecordsInv
  <2> QED BY <1>3, <1>4, <1>6, <1>7, <1>8, <1>9, <1>10, <1>11, <2>1, OneMoves DEF v
<1> QED BY <1>8, <1>12

--------------------------------------------------------------------------------
(* A record is made.                                                          *)

LEMMA EmitKeeps ==
    ASSUME RecordsInv, Emit
    PROVE  RecordsInv' /\ View'.owner = View.owner
<1> DEFINE r == Len(made) + 1
           b == bindings[active]
           sup == IF r \in Heartbeats THEN b.memory \cap Heartbeats ELSE {}
           lean == [b EXCEPT !.memory = @ \ sup]
           kept == Chained(lean, "remove", sup)
           more == [kept EXCEPT !.memory = @ \cup {r}]
           full == Chained(more, "append", {r})
           over == Overflow(full.memory)
           c == Asks(Pruned(full), FALSE)
           said == [status EXCEPT ![r] = IF r \in Reports THEN "saving" ELSE "none"]
           v == View'
<1>1. /\ active \in Bindings /\ r \in Numbers /\ made' = Append(made, active) /\ Put(active, c)
      /\ status' = Says(said, active, over, "pruned")
      /\ excused' = excused \cup sup \cup over
      /\ UNCHANGED <<active, disk, server>>
  BY DEF Emit, RecordsInv
<1>2. b \in Binding /\ Sound(View, b) /\ b.owner # NoOne
  <2>1. active \in Bindings /\ active # 0 BY <1>1 DEF Bindings
  <2>2. bindings[active].owner # NoOne BY <2>1 DEF RecordsInv
  <2>3. \A m \in Bindings : bindings[m] \in Binding /\ Sound(View, bindings[m]) BY DEF RecordsInv
  <2> QED BY <2>1, <2>2, <2>3
<1>3. /\ made' \in Seq(Bindings) /\ Len(made') = r /\ Len(made) \in Nat
      /\ made'[r] = active
      /\ \A q \in 1..Len(made) : made'[q] = made[q]
  BY <1>1, Appended DEF RecordsInv
<1>4. /\ Known(View') = Known(View) \cup {r} /\ r \notin Known(View) /\ Known(View) = 1..Len(made)
      /\ Known(View') \subseteq Numbers /\ Len(made') <= MaxRecords
  BY <1>1, <1>3, DiagnosticAssumption DEF View, Known, Numbers
<1>5. /\ bindings' \in [DOMAIN bindings -> {bindings'[m] : m \in Bindings}]
      /\ bindings'[active] = c /\ \A m \in Bindings : m # active => bindings'[m] = bindings[m]
  BY <1>1 DEF Put, RecordsInv
<1> HIDE DEF r
<1>6. sup \subseteq b.memory /\ sup \subseteq Numbers /\ sup \cap Reports = {}
  BY <1>2, DiagnosticAssumption DEF Binding
<1> HIDE DEF sup
<1>7. /\ lean \in Binding /\ lean.owner = b.owner /\ lean.memory = b.memory \ sup
      /\ lean.settled = b.settled /\ lean.chain = b.chain /\ lean.read = b.read
      /\ lean.cache = b.cache /\ lean.token = b.token /\ lean.answer = b.answer
  BY <1>2 DEF Binding
<1> HIDE DEF lean
<1>8. PICK s \in Seq(Mutation) : kept = [lean EXCEPT !.chain = s]
  <2> DEFINE e == [op |-> "remove", ids |-> sup]
  <2>1. e \in Mutation BY <1>6 DEF Mutation
  <2>2. lean.chain \in Seq(Mutation) /\ Append(lean.chain, e) \in Seq(Mutation)
    BY <1>7, <2>1, Appended DEF Binding
  <2>3. lean = [lean EXCEPT !.chain = lean.chain] BY <1>7 DEF Binding
  <2> QED BY <2>2, <2>3 DEF Chained
<1>9. /\ kept \in Binding /\ kept.owner = b.owner /\ kept.memory = b.memory \ sup
      /\ kept.settled = b.settled /\ kept.read = b.read
      /\ kept.cache = b.cache /\ kept.token = b.token /\ kept.answer = b.answer
  <2> HIDE DEF kept
  <2> QED BY <1>7, <1>8 DEF Binding
<1>10. Appending(kept) = Appending(b)
  <2>1. Appending(kept) = Appending(lean) \cup {} BY <1>6, <1>7, AppendingOfChained
  <2>2. Appending(lean) = Appending(b) BY <1>7 DEF Appending
  <2> QED BY <2>1, <2>2
<1> HIDE DEF kept
<1>11. /\ more \in Binding /\ more.owner = b.owner /\ more.memory = (b.memory \ sup) \cup {r}
       /\ more.settled = b.settled /\ more.read = b.read /\ more.chain = kept.chain
       /\ more.cache = b.cache /\ more.token = b.token /\ more.answer = b.answer
  BY <1>1, <1>9 DEF Binding
<1> HIDE DEF more
<1>12. full.memory = more.memory /\ full.owner = b.owner
  BY <1>11 DEF Chained, Binding
<1>13. over \subseteq more.memory /\ over \subseteq Numbers
  BY <1>11, <1>12, OverflowIsHeld DEF Binding
<1>14. c.owner = b.owner
  <2>1. full \in Binding
    <3> DEFINE e == [op |-> "append", ids |-> {r}]
    <3>1. e \in Mutation BY <1>1 DEF Mutation
    <3>2. Append(more.chain, e) \in Seq(Mutation) BY <1>11, <3>1, Appended DEF Binding
    <3> QED BY <1>11, <3>2 DEF Chained, Binding
  <2> HIDE DEF full
  <2> QED BY <1>12, <2>1, PrunedIsTyped DEF Asks, Binding
<1> HIDE DEF c, over
<1>15. /\ v.owner = View.owner /\ v.made = made' /\ v.received = View.received
       /\ v.refused = View.refused /\ v.excused = excused' /\ View.excused \subseteq v.excused
       /\ Gone(View) \subseteq Gone(v) /\ excused' \subseteq Gone(v)
  <2>1. \A m \in Bindings : bindings'[m].owner = bindings[m].owner BY <1>5, <1>14
  <2> QED BY <1>1, <2>1 DEF View, Gone
<1>16. \A q \in Known(View) : v.made[q] = View.made[q] /\ v.owner[v.made[q]] = View.owner[View.made[q]]
  <2>1. View.made = made BY DEF View
  <2> HIDE DEF v
  <2> QED BY <1>3, <1>4, <1>15, <2>1
<1>17. /\ Known(v) = Known(View) \cup {r} /\ r \notin Known(View) /\ Known(v) \subseteq Numbers
       /\ v.made[r] = active /\ v.owner[active] = b.owner
  <2>1. View.owner[active] = b.owner BY <1>1 DEF View
  <2>2. Known(v) = Known(View) \cup {r} /\ Known(v) \subseteq Numbers /\ r \notin Known(View)
    BY <1>4
  <2> HIDE DEF v
  <2> QED BY <1>3, <1>15, <2>1, <2>2
<1> HIDE DEF v
<1>18. \A m \in Bindings : Sound(v, bindings[m])
  <2>1. \A m \in Bindings : Sound(View, bindings[m]) BY DEF RecordsInv
  <2>2. /\ Known(View) \subseteq Known(v) /\ View.received \subseteq v.received
        /\ View.refused \subseteq v.refused /\ View.excused \subseteq v.excused
    BY <1>15, <1>17
  <2> QED BY <1>16, <2>1, <2>2, SoundLater
<1>19. Sound(v, b) BY <1>1, <1>18
<1>20. Sound(v, kept)
  <2>1. Sound(v, lean) BY <1>2, <1>7, <1>19 DEF Sound, Own, Truthful
  <2>2. Own(v, sup, lean.owner) /\ sup \subseteq Gone(v) /\ lean.owner # NoOne
    BY <1>1, <1>2, <1>6, <1>7, <1>15, <1>19 DEF Sound, Own
  <2> QED BY <1>6, <2>1, <2>2, ChainedIsSound DEF kept
<1>21. Own(v, {r}, b.owner) BY <1>17 DEF Own
<1>22. Sound(v, more)
  <2>1. Own(v, more.memory, b.owner) BY <1>9, <1>11, <1>20, <1>21 DEF Sound, Own
  <2>2. more.memory \cap more.settled = {}
    BY <1>2, <1>11, <1>17 DEF Sound
  <2> QED BY <1>2, <1>9, <1>11, <1>20, <2>1, <2>2 DEF Sound
<1>23. Sound(v, full) /\ Appending(full) = Appending(b) \cup {r}
  <2>1. {r} \in SUBSET Numbers BY <1>1
  <2>2. Sound(v, full) BY <1>2, <1>11, <1>21, <1>22, <2>1, ChainedIsSound
  <2>3. Appending(full) = Appending(more) \cup {r} BY <1>11, <2>1, AppendingOfChained
  <2>4. Appending(more) = Appending(kept) BY <1>11 DEF Appending
  <2> QED BY <1>10, <2>2, <2>3, <2>4
<1> HIDE DEF full
<1>24. /\ Sound(v, Pruned(full)) /\ Pruned(full).owner = b.owner
       /\ Pruned(full).memory = full.memory \ over
       /\ Appending(Pruned(full)) = Appending(full)
  <2>1. Overflow(full.memory) \subseteq v.excused BY <1>1, <1>15 DEF over
  <2> QED BY <1>2, <1>12, <1>23, <2>1, PrunedKeeps DEF over
<1>25. /\ Sound(v, c) /\ c.memory = full.memory \ over /\ Appending(c) = Appending(b) \cup {r}
  <2>1. Pruned(full).owner # NoOne BY <1>2, <1>24
  <2> DEFINE p == Pruned(full)
  <2>2. Sound(v, p) /\ p.owner # NoOne /\ c = Asks(p, FALSE) BY <1>24, <2>1 DEF c
  <2>3. p.memory = full.memory \ over /\ Appending(p) = Appending(full) BY <1>24
  <2> HIDE DEF p
  <2>4. Sound(v, Asks(p, FALSE)) /\ Asks(p, FALSE).memory = p.memory
        /\ Appending(Asks(p, FALSE)) = Appending(p)
    BY <2>2, AsksKeeps
  <2> QED BY <1>23, <2>2, <2>3, <2>4
<1>26. /\ said \in [Numbers -> Statuses]
       /\ Speaks(v, said, active, full)
       /\ \A m \in Bindings \ {active} : Speaks(v, said, m, bindings[m])
  <2>1. said \in [Numbers -> Statuses] BY <1>1 DEF RecordsInv, Statuses
  <2>2. /\ \A q \in Known(View) : said[q] = status[q]
        /\ said[r] = IF r \in Reports THEN "saving" ELSE "none"
    BY <1>1, <1>17 DEF RecordsInv
  <2> HIDE DEF said
  <2>3. \A m \in Bindings : Speaks(View, status, m, bindings[m]) BY DEF RecordsInv
  <2>4. \A q \in Known(View) : v.made[q] = View.made[q] BY <1>3, <1>4, <1>15 DEF View
  <2>5. ASSUME NEW m \in Bindings \ {active} PROVE Speaks(v, said, m, bindings[m])
    BY <1>15, <1>17, <2>2, <2>3, <2>4 DEF Speaks
  <2>6. ASSUME NEW q \in Known(v), v.made[q] = active
        PROVE  /\ said[q] # "none" => q \in Reports
               /\ said[q] = "acknowledged" => <<q, full.owner>> \in v.received
               /\ said[q] = "refused" => q \in v.refused
               /\ said[q] \in {"saving", "queued", "unsaved"} => q \in full.memory
    <3>1. CASE q = r BY <1>11, <1>12, <2>2, <3>1
    <3>2. CASE q \in Known(View)
      <4>1. /\ said[q] # "none" => q \in Reports
            /\ said[q] = "acknowledged" => <<q, b.owner>> \in View.received
            /\ said[q] = "refused" => q \in View.refused
            /\ said[q] \in {"saving", "queued", "unsaved"} => q \in b.memory
        BY <1>1, <2>2, <2>3, <2>4, <2>6, <3>2 DEF Speaks
      <4> QED BY <1>6, <1>11, <1>12, <1>15, <4>1
    <3> QED BY <1>17, <3>1, <3>2
  <2>7. Speaks(v, said, active, full) BY <2>6 DEF Speaks
  <2> QED BY <2>1, <2>5, <2>7
<1>27. /\ status' \in [Numbers -> Statuses] /\ Speaks(v, status', active, c)
       /\ \A m \in Bindings \ {active} : Speaks(v, status', m, bindings[m])
  <2>1. Results(v, full, c, over, "pruned") /\ "pruned" \in Outcomes
    BY <1>12, <1>14, <1>25 DEF Results, Outcomes, Statuses
  <2> HIDE DEF said
  <2> QED BY <1>1, <1>15, <1>17, <1>26, <2>1, SaysOfMine
<1>28. bindings' \in [Bindings -> Binding]
  <2>1. \A m \in Bindings : bindings'[m] \in Binding BY <1>5, <1>18, <1>25 DEF Sound
  <2> QED BY <1>5, <2>1 DEF RecordsInv
<1>29. \A m \in Bindings : Sound(v, bindings'[m]) /\ Speaks(v, status', m, bindings'[m])
  BY <1>5, <1>18, <1>25, <1>27
<1>30. /\ \A q \in Known(v) : bindings'[made'[q]].owner # NoOne
       /\ \A q \in Known(View) : bindings'[made'[q]].owner = OwnerOf(q)
  <2>1. \A q \in Known(View) : made[q] \in Bindings BY <1>4 DEF RecordsInv
  <2>2. \A m \in Bindings : bindings'[m].owner = bindings[m].owner BY <1>5, <1>14
  <2>3. \A q \in Known(View) : bindings[made[q]].owner # NoOne BY DEF RecordsInv
  <2>4. \A q \in Known(View) : made'[q] = made[q] BY <1>3, <1>4
  <2>5. bindings'[made'[r]].owner # NoOne BY <1>1, <1>2, <1>3, <2>2
  <2> QED BY <1>17, <2>1, <2>2, <2>3, <2>4, <2>5 DEF OwnerOf
<1>31. \A q \in Known(v) : q \in disk \cup Gone(v) \/ \E m \in Bindings : q \in Appending(bindings'[m])
  <2>2. ASSUME NEW q \in Known(View)
        PROVE  q \in disk \cup Gone(v) \/ \E m \in Bindings : q \in Appending(bindings'[m])
    <3>1. q \in disk \cup Gone(View) \/ \E m \in Bindings : q \in Appending(bindings[m])
      BY DEF RecordsInv, Accounted
    <3>2. \A m \in Bindings : Appending(bindings[m]) \subseteq Appending(bindings'[m])
      BY <1>5, <1>25
    <3> QED BY <1>15, <3>1, <3>2
  <2>3. r \in Appending(bindings'[active]) BY <1>5, <1>25
  <2> QED BY <1>1, <1>17, <2>2, <2>3
<1>32. /\ active' \in {0} \cup Bindings /\ (active' # 0 => bindings'[active'].owner # NoOne)
       /\ excused' \subseteq Numbers /\ disk' \subseteq Known(v) /\ server'.refused \subseteq Numbers
  BY <1>1, <1>2, <1>5, <1>6, <1>13, <1>14, <1>17 DEF RecordsInv
<1>33. \A pair \in server'.received : pair \in Known(v) \X Owners
                                     /\ pair[2] = bindings'[made'[pair[1]]].owner
  BY <1>1, <1>17, <1>30 DEF RecordsInv
<1> QED BY <1>1, <1>3, <1>4, <1>15, <1>27, <1>28, <1>29, <1>30, <1>31, <1>32, <1>33
        DEF RecordsInv, Accounted, OwnerOf, v

--------------------------------------------------------------------------------
(* Bindings begin and end.                                                    *)

(* A binding keeps the account it was begun for.                               *)
OwnersGrow == \A n \in Bindings : View'.owner[n] = View.owner[n] \/ View.owner[n] = NoOne

(* The next binding is the first that was never used: "<" on the naturals is    *)
(* well-founded.                                                              *)
LEMMA NextIsUnused == ASSUME MayBind PROVE Next1 \in Bindings /\ bindings[Next1] = Unbound
<1> DEFINE T == {n \in Bindings : bindings[n] = Unbound}
           less == OpToRel(<, Nat)
<1>1. T \subseteq Nat /\ T # {} BY DEF MayBind, Bindings
<1>2. IsWellFoundedOn(less, Nat) BY NatLessThanWellFounded
<1>3. \A m, n \in Nat : m < n => <<m, n>> \in less BY DEF OpToRel
<1> HIDE DEF less
<1>4. PICK n \in T : \A m \in T : ~(<<m, n>> \in less)
  <2> HIDE DEF T
  <2> QED BY <1>1, <1>2, WFMin
<1>5. ASSUME NEW m \in 1..(n - 1) PROVE bindings[m] # Unbound
  <2>1. m \in Nat /\ n \in Nat /\ m < n /\ m \in Bindings
    BY <1>1, <1>4, DiagnosticAssumption DEF Bindings
  <2> QED BY <1>3, <1>4, <2>1
<1>6. \E k \in Bindings : bindings[k] = Unbound /\ \A m \in 1..(k - 1) : bindings[m] # Unbound
  BY <1>4, <1>5
<1> HIDE DEF T
<1> QED BY <1>6 DEF Next1

LEMMA BindKeeps ==
    ASSUME RecordsInv, NEW o \in Owners, Bind(o), UNCHANGED server
    PROVE  RecordsInv' /\ OwnersGrow
<1> DEFINE k == Next1
           v == View'
<1>1. /\ k \in Bindings /\ bindings[k] = Unbound /\ bindings[k].owner = NoOne
      /\ active' = k /\ UNCHANGED <<made, disk, excused, server>>
  BY NextIsUnused DEF Bind, Unbound
<1>2. active # 0 => active \in Bindings /\ active # k /\ bindings[active].owner # NoOne
  BY <1>1 DEF RecordsInv
<1>3. o # NoOne BY DiagnosticAssumption
<1>4. /\ bindings'[k] = Fresh(o) /\ DOMAIN bindings' = Bindings
      /\ \A m \in Bindings \ {k, active} : bindings'[m] = bindings[m]
      /\ active # 0 => bindings'[active] = Ended(bindings[active])
  BY <1>1, <1>2 DEF Bind, RecordsInv
<1>5. active = 0 => status' = status BY DEF Bind
<1>6. active # 0 => status' = Says(status, active, bindings[active].memory, "account_changed")
  BY DEF Bind, Changes
<1>0. \A m \in Bindings : m = active => active # 0 BY DEF Bindings
<1> HIDE DEF k
<1>7. Fresh(o).owner = o /\ \A b : Ended(b).owner = b.owner BY DEF Fresh, Ended, Unbound
<1>8. \A m \in Bindings \ {k} : bindings'[m].owner = bindings[m].owner
  BY <1>4, <1>7, <1>0
<1>9. /\ v.made = View.made /\ View.made = made /\ v.received = View.received /\ v.refused = View.refused
      /\ v.excused = View.excused /\ Known(v) = Known(View) /\ Gone(v) = Gone(View)
      /\ \A m \in Bindings \ {k} : v.owner[m] = View.owner[m]
      /\ v.owner[k] = o /\ View.owner[k] = NoOne
      /\ \A m \in Bindings : View.owner[m] = bindings[m].owner
  BY <1>1, <1>4, <1>7, <1>8 DEF View, Known, Gone
<1>10. OwnersGrow BY <1>9 DEF OwnersGrow
<1>11. /\ \A r \in Known(View) : made[r] \in Bindings \ {k}
       /\ Known(View) \subseteq Numbers
  <2>1. Len(made) \in Nat BY DEF RecordsInv
  <2>2. Known(View) = 1..Len(made) /\ Known(View) \subseteq Numbers
    BY <2>1, DiagnosticAssumption DEF RecordsInv, Known, View, Numbers
  <2>3. \A r \in Known(View) : made[r] \in Bindings /\ bindings[made[r]].owner # NoOne
    BY <2>2 DEF RecordsInv
  <2> QED BY <1>1, <2>2, <2>3
<1>12. \A r \in Known(View) : v.owner[v.made[r]] = View.owner[View.made[r]]
  BY <1>9, <1>11
<1>13. v.made = made' BY DEF View
<1> HIDE DEF v
<1>14. \A m \in Bindings : Sound(v, bindings[m])
  <2>1. \A m \in Bindings : Sound(View, bindings[m]) BY DEF RecordsInv
  <2> QED BY <1>9, <1>12, <2>1, SoundLater
<1>15. Sound(v, Fresh(o)) /\ Fresh(o) \in Binding
  <2> DEFINE f == Fresh(o)
  <2>2. Own(v, Rows(o), o)
    <3>1. \A r \in Rows(o) : r \in Known(View) /\ bindings[made[r]].owner = o
      BY DEF Rows, OwnerOf, RecordsInv
    <3> QED BY <1>9, <1>11, <1>13, <3>1 DEF Own
  <2>3. Rows(o) \subseteq Numbers BY <1>11 DEF Rows, RecordsInv
  <2>4. NoToken \in Token /\ NoToken[1] = NoOne /\ NoAnswer.kind = "none"
        /\ NoAnswer \in [kind : {"none", "taken", "401"}, accepted : SUBSET Numbers,
                         rejected : SUBSET Numbers]
    BY DEF NoToken, NoAnswer, Token, Anyone
  <2>5. f \in Binding BY <2>3, UnboundIsTyped DEF Binding, Anyone, Fresh
  <2>6. /\ f.owner = o /\ f.memory = {} /\ f.settled = {} /\ f.chain = <<>> /\ f.read.rows = Rows(o)
        /\ f.token = NoToken /\ f.cache = NoToken /\ f.answer = NoAnswer
    BY DEF Fresh, Unbound
  <2> HIDE DEF f
  <2>7. Own(v, f.memory, o) /\ Truthful(v, f.answer, o) BY <2>4, <2>6 DEF Own, Truthful
  <2> QED BY <1>3, <2>2, <2>4, <2>5, <2>6, <2>7 DEF Sound, f
<1>16. active # 0 => /\ Sound(v, Ended(bindings[active]))
                     /\ Ended(bindings[active]).memory = {}
                     /\ Appending(Ended(bindings[active])) = Appending(bindings[active])
  BY <1>2, <1>14, EndedKeeps
<1>17. \A m \in Bindings : Sound(v, bindings'[m])
  BY <1>4, <1>14, <1>15, <1>16, <1>0
<1>18. \A m \in Bindings : Appending(bindings[m]) \subseteq Appending(bindings'[m])
  <2>1. Appending(bindings[k]) = {} BY <1>1 DEF Appending, Unbound
  <2> QED BY <1>4, <1>16, <1>0, <2>1
<1>19. /\ status \in [Numbers -> Statuses]
       /\ \A m \in Bindings : Speaks(v, status, m, bindings[m])
  BY <1>9 DEF RecordsInv, Speaks
<1>20. /\ status' \in [Numbers -> Statuses]
       /\ \A m \in Bindings \ {k} : Speaks(v, status', m, bindings'[m])
  <2>1. CASE active = 0 BY <1>4, <1>5, <1>19, <2>1 DEF Bindings
  <2>2. CASE active # 0
    <3> DEFINE ids == bindings[active].memory
    <3>1. Results(v, bindings[active], Ended(bindings[active]), ids, "account_changed")
          /\ "account_changed" \in Outcomes
      BY <1>7 DEF Results, Outcomes, Statuses
    <3>2. status' = Says(status, active, ids, "account_changed") BY <1>6, <2>2
    <3> HIDE DEF ids
    <3>3. /\ status' \in [Numbers -> Statuses]
          /\ Speaks(v, status', active, Ended(bindings[active]))
          /\ \A m \in Bindings \ {active} : Speaks(v, status', m, bindings[m])
      BY <1>2, <1>9, <1>11, <1>13, <1>19, <2>2, <3>1, <3>2, SaysOfMine
    <3> QED BY <1>4, <2>2, <3>3
  <2> QED BY <2>1, <2>2
<1>21. Speaks(v, status', k, bindings'[k]) BY <1>9, <1>11 DEF Speaks
<1>22. bindings' \in [Bindings -> Binding]
  <2>1. \A m \in Bindings : bindings'[m] \in Binding BY <1>17 DEF Sound
  <2>2. bindings' = [m \in Bindings |-> bindings'[m]] BY <1>4 DEF Bind, RecordsInv
  <2> QED BY <2>1, <2>2
<1>23. \A r \in Known(v) : /\ made'[r] = made[r] /\ made[r] \in Bindings
                           /\ bindings'[made'[r]].owner = bindings[made[r]].owner
  BY <1>1, <1>8, <1>9, <1>11
<1>24. /\ \A r \in Known(v) : bindings'[made'[r]].owner # NoOne
       /\ \A pair \in server'.received : pair \in Known(v) \X Owners
                                        /\ pair[2] = bindings'[made'[pair[1]]].owner
  BY <1>1, <1>9, <1>23 DEF RecordsInv, OwnerOf
<1>25. \A r \in Known(v) : r \in disk \cup Gone(v) \/ \E m \in Bindings : r \in Appending(bindings'[m])
  BY <1>9, <1>18 DEF RecordsInv, Accounted
<1>26. bindings'[active'].owner # NoOne BY <1>1, <1>3, <1>4, <1>7
<1>27. /\ made' \in Seq(Bindings) /\ Len(made') <= MaxRecords /\ disk' \subseteq Known(v)
       /\ excused' \subseteq Numbers /\ server'.refused \subseteq Numbers
  BY <1>1, <1>9 DEF RecordsInv
<1>28. \A m \in Bindings : Sound(v, bindings'[m]) /\ Speaks(v, status', m, bindings'[m])
  BY <1>17, <1>20, <1>21
<1> QED BY <1>1, <1>10, <1>20, <1>22, <1>24, <1>25, <1>26, <1>27, <1>28
        DEF RecordsInv, Accounted, OwnerOf, v

(* A binding ends; its reports learn that the account changed.                 *)
LEMMA LeaveIsOverKeeps ==
    ASSUME RecordsInv, NEW n \in Bindings, LeaveIsOver(n), UNCHANGED <<active, server>>
    PROVE  RecordsInv' /\ OwnersStay
<1> DEFINE b == bindings[n]
           d == Ended(b)
           v == View'
<1>1. /\ Put(n, d) /\ UNCHANGED <<made, disk, excused>>
      /\ status' = Says(status, n, b.memory, "account_changed") /\ b.owner # NoOne
  BY Bound DEF LeaveIsOver, Changes
<1>2. Sound(View, b) BY DEF RecordsInv
<1>3. d.owner = b.owner /\ Appending(d) = Appending(b) BY <1>1, <1>2, EndedKeeps
<1>4. /\ OwnersStay /\ v.made = made' /\ v.made = View.made /\ v.owner = View.owner
      /\ View.received \subseteq v.received /\ View.refused \subseteq v.refused
      /\ View.excused \subseteq v.excused
      /\ Known(v) = Known(View) /\ Known(View) \subseteq Numbers
  BY <1>1, <1>3, ViewOf
<1> HIDE DEF v
<1>5. Sound(v, b) BY <1>2, <1>4, SoundGrows
<1>6. Sound(v, d) BY <1>1, <1>5, EndedKeeps
<1>7. \A m \in Bindings : Speaks(v, status, m, bindings[m])
  BY <1>4, SpeaksGrows DEF RecordsInv
<1>8. Results(v, b, d, b.memory, "account_changed") /\ "account_changed" \in Outcomes
  BY <1>3 DEF Results, Outcomes, Statuses
<1> HIDE DEF d
<1>9. /\ status' \in [Numbers -> Statuses] /\ Speaks(v, status', n, d)
      /\ \A m \in Bindings \ {n} : Speaks(v, status', m, bindings[m])
  <2>1. status \in [Numbers -> Statuses] BY DEF RecordsInv
  <2>2. Known(v) \subseteq Numbers BY <1>4
  <2> QED BY <1>1, <1>4, <1>7, <1>8, <2>1, <2>2, SaysOfMine
<1>10. RecordsInv'
  <2>1. /\ excused' \subseteq Numbers /\ disk' \subseteq Known(View)
        /\ server'.refused \subseteq Numbers /\ server'.received = server.received
    BY <1>1 DEF RecordsInv
  <2>2. disk \subseteq disk' /\ Appending(bindings[n]) \subseteq Appending(d) BY <1>1, <1>3
  <2> QED BY <1>1, <1>3, <1>4, <1>6, <1>9, <2>1, <2>2, OneMoves DEF v
<1> QED BY <1>4, <1>10

LEMMA PendingIsAppending ==
    ASSUME NEW b \in Binding
    PROVE  Appending(b) \subseteq Pending(b, "append") /\ Pending(b, "append") \subseteq Numbers
<1>1. b.chain \in Seq(Mutation) /\ Len(b.chain) \in Nat /\ DOMAIN b.chain = 1..Len(b.chain) BY DEF Binding
<1>2. \A i \in 1..Len(b.chain) : b.chain[i] \in Mutation /\ b.chain[i] \in Range(b.chain)
  BY <1>1 DEF Range
<1>3. \A e \in Range(b.chain) : e \in Mutation BY <1>1 DEF Range
<1> QED BY <1>2, <1>3 DEF Appending, Pending, Mutation

(* The app ends: what was not in the database is excused.                      *)
LEMMA CrashKeeps ==
    ASSUME RecordsInv, Crash
    PROVE  RecordsInv' /\ OwnersGrow
<1> DEFINE v == View'
           lost(n) == (bindings[n].memory \cup Pending(bindings[n], "append")) \ disk
<1>1. /\ excused' = excused \cup UNION {lost(n) : n \in Bindings}
      /\ active' = 0 /\ status' = [r \in Numbers |-> "none"] /\ UNCHANGED <<made, disk, server>>
      /\ bindings' = [n \in Bindings |-> IF bindings[n] = Unbound THEN Unbound
                                         ELSE [Unbound EXCEPT !.owner = bindings[n].owner]]
  BY DEF Crash
<1>2. \A n \in Bindings : bindings[n] \in Binding BY DEF RecordsInv
<1>3. ASSUME NEW n \in Bindings
      PROVE  /\ bindings'[n] = [Unbound EXCEPT !.owner = bindings'[n].owner]
             /\ bindings'[n].owner = bindings[n].owner /\ bindings'[n] \in Binding
  <2>1. bindings[n].owner \in Anyone BY <1>2 DEF Binding
  <2>2. bindings'[n] = [Unbound EXCEPT !.owner = bindings[n].owner]
    BY <1>1 DEF Unbound
  <2> QED BY <2>1, <2>2, UnboundIsTyped DEF Binding
<1>4. bindings' \in [Bindings -> Binding] BY <1>1, <1>3
<1>5. /\ v.made = View.made /\ v.owner = View.owner /\ v.received = View.received
      /\ v.refused = View.refused /\ v.excused = excused' /\ View.excused = excused
      /\ Known(v) = Known(View)
  BY <1>1, <1>3 DEF View, Known
<1>6. OwnersGrow BY <1>5 DEF OwnersGrow
<1> HIDE DEF v
<1>7. \A n \in Bindings : Sound(v, bindings'[n]) BY <1>3, UnboundIsSound
<1>8. status' \in [Numbers -> Statuses] BY <1>1 DEF Statuses
<1>9. Known(View) \subseteq Numbers
  <2>1. Len(made) \in Nat BY DEF RecordsInv
  <2> QED BY <2>1, DiagnosticAssumption DEF RecordsInv, Known, View, Numbers
<1>10. \A n \in Bindings : Speaks(v, status', n, bindings'[n])
  BY <1>1, <1>5, <1>9 DEF Speaks
<1>11. \A n \in Bindings : lost(n) \subseteq Numbers
  BY <1>2, PendingIsAppending DEF Binding
<1>12. excused' \subseteq Numbers BY <1>1, <1>11 DEF RecordsInv
<1>13. Gone(View) \subseteq Gone(v) /\ excused' \subseteq Gone(v) BY <1>1, <1>5 DEF Gone
<1>14. ASSUME NEW r \in Known(View), NEW n \in Bindings, r \in Appending(bindings[n])
       PROVE  r \in disk \cup Gone(v)
  <2>1. r \in Pending(bindings[n], "append") BY <1>2, <1>14, PendingIsAppending
  <2>2. r \in disk \/ r \in lost(n) BY <2>1
  <2> HIDE DEF lost
  <2> QED BY <1>1, <1>13, <2>2
<1> HIDE DEF lost
<1>15. \A r \in Known(v) : r \in disk' \cup Gone(v) BY <1>1, <1>5, <1>13, <1>14 DEF RecordsInv, Accounted
<1>16. \A r \in Known(View) : made[r] \in Bindings /\ bindings'[made'[r]].owner = bindings[made[r]].owner
  <2>1. \A r \in Known(View) : made[r] \in Bindings BY DEF RecordsInv, Known, View
  <2> QED BY <1>1, <1>3, <2>1
<1>17. /\ \A r \in Known(v) : bindings'[made'[r]].owner # NoOne
       /\ \A pair \in server'.received : pair \in Known(v) \X Owners
                                        /\ pair[2] = bindings'[made'[pair[1]]].owner
  BY <1>1, <1>5, <1>16 DEF RecordsInv, OwnerOf
<1>18. /\ made' \in Seq(Bindings) /\ Len(made') <= MaxRecords /\ disk' \subseteq Known(v)
       /\ server'.refused \subseteq Numbers
  BY <1>1, <1>5 DEF RecordsInv
<1> QED BY <1>1, <1>4, <1>6, <1>7, <1>8, <1>10, <1>12, <1>15, <1>17, <1>18
        DEF RecordsInv, Accounted, OwnerOf, v

--------------------------------------------------------------------------------
(* A flush begins.                                                            *)

LEMMA SendsKeeps ==
    ASSUME RecordsInv, SecureInv, NEW n \in Bindings, NEW b, Sound(View, b),
           bindings[n].owner # NoOne, b.owner = bindings[n].owner,
           b.memory = bindings[n].memory, Appending(b) = Appending(bindings[n]),
           NEW token \in Token, token[1] \in {NoOne, b.owner},
           Sends(n, b, token), UNCHANGED active
    PROVE  RecordsInv' /\ OwnersStay /\ server' \in Server
<1>1. CASE BatchGoes(n, b, token, FALSE) BY <1>1, BatchKeeps
<1>2. CASE BatchGoes(n, b, token, TRUE) BY <1>2, BatchKeeps
<1> QED BY <1>1, <1>2 DEF Sends

(* A binding whose last flush begins.                                          *)
LEMMA LastIsSound ==
    ASSUME RecordsInv, NEW n \in Bindings, bindings[n].owner # NoOne,
           NEW b \in {bindings[n], [bindings[n] EXCEPT !.leaving = "last"]}
    PROVE  /\ Sound(View, b) /\ b.owner = bindings[n].owner /\ b.memory = bindings[n].memory
           /\ b.cache = bindings[n].cache
           /\ Appending(b) = Appending(bindings[n])
<1>1. bindings[n] \in Binding /\ Sound(View, bindings[n]) BY DEF RecordsInv
<1>2. /\ b \in Binding /\ b.owner = bindings[n].owner /\ b.memory = bindings[n].memory
      /\ b.settled = bindings[n].settled /\ b.chain = bindings[n].chain
      /\ b.read = bindings[n].read /\ b.cache = bindings[n].cache
      /\ b.answer = bindings[n].answer /\ b.token = bindings[n].token
  BY <1>1 DEF Binding
<1>3. b.token[1] \in {NoOne, bindings[n].owner} BY <1>1, <1>2 DEF Sound
<1> QED BY <1>2, <1>3, OneTouched

LEMMA FoundKeeps ==
    ASSUME RecordsInv, SecureInv, NEW n \in Bindings, bindings[n].owner # NoOne,
           NEW b \in {bindings[n], [bindings[n] EXCEPT !.leaving = "last"]},
           NEW token \in Token, token[1] \in {NoOne, bindings[n].owner},
           Found(n, b, token), UNCHANGED active
    PROVE  RecordsInv' /\ OwnersStay /\ server' \in Server
<1>1. /\ Sound(View, b) /\ b.owner = bindings[n].owner /\ b.memory = bindings[n].memory
      /\ Appending(b) = Appending(bindings[n])
  BY LastIsSound
<1>2. CASE token = NoToken
  <2>1. b.token \in Token /\ b \in Binding /\ b.token[1] \in {NoOne, bindings[n].owner}
    BY <1>1 DEF Sound, Binding
  <2>2. [b EXCEPT !.phase = "unregistered", !.timer = "none"]
        = [b EXCEPT !.phase = "unregistered", !.timer = "none", !.token = b.token]
    BY <2>1 DEF Binding
  <2>3. /\ Put(n, [b EXCEPT !.phase = "unregistered", !.timer = "none", !.token = b.token])
        /\ UNCHANGED <<records, server>>
    BY <1>2, <2>2 DEF Found
  <2>4. server' \in Server BY <2>3 DEF SecureInv, PartiesInv
  <2> QED BY <2>1, <2>3, <2>4, PhaseKeeps
<1>3. CASE token # NoToken
  <2>1. Sends(n, b, token) BY <1>3 DEF Found
  <2>2. token[1] \in {NoOne, b.owner} BY <1>1
  <2> QED BY <1>1, <2>1, <2>2, SendsKeeps
<1> QED BY <1>2, <1>3

LEMMA LookingKeeps ==
    ASSUME RecordsInv, SecureInv, NEW n \in Bindings, bindings[n].owner # NoOne,
           NEW b \in {bindings[n], [bindings[n] EXCEPT !.leaving = "last"]},
           Put(n, [b EXCEPT !.phase = "looking", !.timer = "none"]),
           UNCHANGED <<records, server, active>>
    PROVE  RecordsInv' /\ OwnersStay /\ server' \in Server
<1>1. Sound(View, b) /\ b.owner = bindings[n].owner BY LastIsSound
<1>2. b.token \in Token /\ b \in Binding /\ b.token[1] \in {NoOne, bindings[n].owner}
  BY <1>1 DEF Sound, Binding
<1>3. [b EXCEPT !.phase = "looking", !.timer = "none"]
      = [b EXCEPT !.phase = "looking", !.timer = "none", !.token = b.token]
  BY <1>2 DEF Binding
<1>4. server' \in Server BY DEF SecureInv, PartiesInv
<1> QED BY <1>2, <1>3, <1>4, PhaseKeeps

--------------------------------------------------------------------------------
(* The credentials.                                                           *)

LEMMA SecureGrows ==
    ASSUME NEW s, NEW w, SecureGood(s, w), NEW v,
           \A n \in Bindings : v[n] = w[n] \/ w[n] = NoOne
    PROVE  SecureGood(s, v)
<1>1. ASSUME NEW op, NEW o, Belongs(op, o, w) PROVE Belongs(op, o, v)
  <2>1. op.by # 0 => op.by \in Bindings
    BY <1>1, DiagnosticAssumption DEF Belongs, Operation, Bindings
  <2> QED BY <1>1, <2>1 DEF Belongs
<1> QED BY <1>1 DEF SecureGood, AllBelong

(* One account's credential and operations are replaced.                       *)
LEMMA OneSecured ==
    ASSUME NEW s, NEW w, SecureGood(s, w), NEW o \in Anyone,
           NEW t \in Token, t[1] \in {NoOne, o}, NEW q \in Seq(Operation),
           AllBelong(q, o, w)
    PROVE  SecureGood([s EXCEPT ![o] = [token |-> t, ops |-> q]], w)
<1> DEFINE c == [token |-> t, ops |-> q]
           d == [s EXCEPT ![o] = c]
<1>1. c \in [token : Token, ops : Seq(Operation)] /\ c.token = t /\ c.ops = q OBVIOUS
<1> HIDE DEF c
<1>2. d \in [Anyone -> [token : Token, ops : Seq(Operation)]] BY <1>1 DEF SecureGood
<1>3. d[o] = c /\ \A p \in Anyone \ {o} : d[p] = s[p] BY DEF SecureGood
<1> HIDE DEF d
<1>4. ASSUME NEW p \in Anyone
      PROVE  /\ d[p].token[1] \in {NoOne, p}
             /\ AllBelong(d[p].ops, p, w)
  <2>1. CASE p = o BY <1>1, <1>3, <2>1
  <2>2. CASE p # o BY <1>3, <2>2 DEF SecureGood
  <2> QED BY <2>1, <2>2
<1>5. SecureGood(d, w) BY <1>2, <1>4 DEF SecureGood
<1> QED BY <1>5 DEF c, d

(* What an account's entry is.                                                 *)
LEMMA Entry ==
    ASSUME NEW s, NEW w, SecureGood(s, w), NEW o \in Anyone
    PROVE  /\ s[o].token \in Token /\ s[o].token[1] \in {NoOne, o} /\ s[o].ops \in Seq(Operation)
           /\ AllBelong(s[o].ops, o, w)
           /\ s[o] = [token |-> s[o].token, ops |-> s[o].ops]
<1>1. s[o] \in [token : Token, ops : Seq(Operation)] BY DEF SecureGood
<1> QED BY <1>1 DEF SecureGood

LEMMA TokenStored ==
    ASSUME NEW s, NEW w, SecureGood(s, w), NEW o \in Anyone, NEW t \in Token, t[1] \in {NoOne, o}
    PROVE  SecureGood([s EXCEPT ![o].token = t], w)
<1>1. /\ s[o].token \in Token /\ s[o].token[1] \in {NoOne, o} /\ s[o].ops \in Seq(Operation)
      /\ AllBelong(s[o].ops, o, w)
      /\ s[o] = [token |-> s[o].token, ops |-> s[o].ops]
  BY Entry
<1> DEFINE c == [token |-> t, ops |-> s[o].ops]
<1>2. [s EXCEPT ![o].token = t] = [s EXCEPT ![o] = c]
  <2>1. c = [s[o] EXCEPT !.token = t] BY <1>1
  <2> HIDE DEF c
  <2> QED BY <2>1
<1>3. SecureGood([s EXCEPT ![o] = [token |-> t, ops |-> s[o].ops]], w) BY <1>1, OneSecured
<1> QED BY <1>2, <1>3

LEMMA OpsReplaced ==
    ASSUME NEW s, NEW w, SecureGood(s, w), NEW o \in Anyone, NEW q \in Seq(Operation),
           AllBelong(q, o, w)
    PROVE  SecureGood([s EXCEPT ![o].ops = q], w)
<1>1. /\ s[o].token \in Token /\ s[o].token[1] \in {NoOne, o} /\ s[o].ops \in Seq(Operation)
      /\ AllBelong(s[o].ops, o, w)
      /\ s[o] = [token |-> s[o].token, ops |-> s[o].ops]
  BY Entry
<1> DEFINE c == [token |-> s[o].token, ops |-> q]
<1>2. [s EXCEPT ![o].ops = q] = [s EXCEPT ![o] = c]
  <2>1. c = [s[o] EXCEPT !.ops = q] BY <1>1
  <2> HIDE DEF c
  <2> QED BY <2>1
<1>3. SecureGood([s EXCEPT ![o] = [token |-> s[o].token, ops |-> q]], w) BY <1>1, OneSecured
<1> QED BY <1>2, <1>3

LEMMA OpsLater ==
    ASSUME NEW w, NEW o, NEW q \in Seq(Operation), AllBelong(q, o, w),
           NEW op \in Operation, Belongs(op, o, w)
    PROVE  /\ Append(q, op) \in Seq(Operation)
           /\ AllBelong(Append(q, op), o, w)
<1> DEFINE G == {e \in Operation : Belongs(e, o, w)}
<1>1. \A i \in 1..Len(q) : q[i] \in G BY DEF AllBelong
<1>2. op \in G OBVIOUS
<1>3. \A i \in 1..Len(Append(q, op)) : Append(q, op)[i] \in G BY <1>1, <1>2, AllAppended
<1> QED BY <1>3, Appended DEF AllBelong

LEMMA OpsRest ==
    ASSUME NEW w, NEW o, NEW q \in Seq(Operation), q # <<>>, AllBelong(q, o, w)
    PROVE  /\ Head(q) \in Operation /\ Belongs(Head(q), o, w) /\ Tail(q) \in Seq(Operation)
           /\ AllBelong(Tail(q), o, w)
<1> DEFINE G == {e \in Operation : Belongs(e, o, w)}
<1>1. \A i \in 1..Len(q) : q[i] \in G BY DEF AllBelong
<1>2. Head(q) \in G /\ \A i \in 1..Len(Tail(q)) : Tail(q)[i] \in G BY <1>1, AllOfTail
<1> QED BY <1>2, WithoutHead DEF AllBelong

LEMMA OpBelongs ==
    ASSUME NEW w, NEW o, NEW kind \in {"get", "set", "remove"}, NEW t \in Token, t[1] \in {NoOne, o},
           NEW n \in 0..MaxBindings, n # 0 => o # NoOne /\ w[n] = o
    PROVE  Op(kind, t, n) \in Operation /\ Belongs(Op(kind, t, n), o, w)
BY DEF Op, Operation, Belongs

LEMMA QueuedGood ==
    ASSUME NEW w, SecureGood(secure, w), NEW o \in Anyone, NEW op, op \in Operation, Belongs(op, o, w)
    PROVE  SecureGood(Queued(o, op), w)
<1> DEFINE q == secure[o].ops
           r == Append(q, op)
<1>1. q \in Seq(Operation) /\ AllBelong(q, o, w) BY Entry
<1>2. Queued(o, op) = [secure EXCEPT ![o].ops = r] BY DEF Queued, SecureGood
<1> HIDE DEF q
<1>3. r \in Seq(Operation) /\ AllBelong(r, o, w) BY <1>1, OpsLater
<1> HIDE DEF r
<1> DEFINE d == [secure EXCEPT ![o].ops = r]
<1>4. SecureGood(d, w) BY <1>3, OpsReplaced
<1> HIDE DEF d
<1>5. Queued(o, op) = d BY <1>2 DEF d
<1> QED BY <1>4, <1>5

LEMMA RemovalGood ==
    ASSUME NEW w, SecureGood(secure, w), NEW o \in Anyone, NEW t \in Token, t[1] \in {NoOne, o}
    PROVE  SecureGood(Removal(o, t), w)
<1>1. CASE Quiet(o)
  <2> DEFINE left == Without(secure[o].token, t)
  <2>1. left \in Token /\ left[1] \in {NoOne, o}
    BY Entry DEF Without, NoToken, Token, Anyone
  <2>2. Removal(o, t) = [secure EXCEPT ![o].token = left]
    BY <1>1 DEF Removal, SecureGood
  <2> HIDE DEF left
  <2>3. SecureGood([secure EXCEPT ![o].token = left], w) BY <2>1, TokenStored
  <2> QED BY <2>2, <2>3
<1>2. CASE ~Quiet(o)
  <2> DEFINE op == Op("remove", t, 0)
  <2>1. 0 \in 0..MaxBindings BY DiagnosticAssumption
  <2>2. op \in Operation /\ Belongs(op, o, w) BY <2>1, OpBelongs
  <2>3. Removal(o, t) = Queued(o, op) BY <1>2 DEF Removal
  <2> HIDE DEF op
  <2> QED BY <2>2, <2>3, QueuedGood
<1> QED BY <1>1, <1>2

--------------------------------------------------------------------------------
(* Every step keeps the invariant.                                            *)

LEMMA Together ==
    ASSUME RecordsInv', OwnersGrow \/ OwnersStay \/ View'.owner = View.owner,
           SecureGood(secure', View.owner), PartiesInv'
    PROVE  DiagnosticInv'
<1>1. \A n \in Bindings : View'.owner[n] = View.owner[n] \/ View.owner[n] = NoOne
  BY DEF OwnersGrow, OwnersStay
<1>2. SecureGood(secure', View'.owner) BY <1>1, SecureGrows
<1> QED BY <1>2 DEF DiagnosticInv, SecureInv

(* ... when the parties and their credentials rest.                            *)
LEMMA OthersRest ==
    ASSUME DiagnosticInv, RecordsInv', OwnersGrow \/ OwnersStay \/ View'.owner = View.owner,
           UNCHANGED <<secure, server, account, logout>>
    PROVE  DiagnosticInv'
<1>1. PartiesInv' /\ SecureGood(secure', View.owner) BY DEF DiagnosticInv, SecureInv, PartiesInv
<1> QED BY <1>1, Together

LEMMA FlushesKeeps ==
    ASSUME DiagnosticInv, NEW n \in Bindings, bindings[n].owner # NoOne,
           NEW b \in {bindings[n], [bindings[n] EXCEPT !.leaving = "last"]},
           Flushes(n, b), UNCHANGED <<active, account, logout>>
    PROVE  DiagnosticInv'
<1> USE DEF DiagnosticInv
<1> DEFINE o == bindings[n].owner
<1>1. /\ Sound(View, b) /\ b.owner = o /\ b.cache = bindings[n].cache BY LastIsSound
<1>2. o \in Anyone /\ b.cache \in Token /\ b.cache[1] \in {NoOne, o}
  BY <1>1 DEF Sound, Binding
<1>3. secure[o].token \in Token /\ secure[o].token[1] \in {NoOne, o}
  BY <1>2, Entry DEF SecureInv
<1>4. CASE b.cache # NoToken \/ Quiet(o)
  <2> DEFINE token == IF b.cache # NoToken THEN b.cache ELSE secure[o].token
  <2>1. Found(n, b, token) /\ UNCHANGED secure BY <1>1, <1>4 DEF Flushes
  <2>2. token \in Token /\ token[1] \in {NoOne, o} BY <1>2, <1>3
  <2> HIDE DEF token
  <2>3. RecordsInv' /\ OwnersStay /\ server' \in Server BY <2>1, <2>2, FoundKeeps
  <2>4. PartiesInv' /\ SecureGood(secure', View.owner) BY <2>1, <2>3 DEF SecureInv, PartiesInv
  <2> QED BY <2>3, <2>4, Together
<1>5. CASE ~(b.cache # NoToken \/ Quiet(o))
  <2> DEFINE op == Op("get", NoToken, n)
  <2>1. /\ Put(n, [b EXCEPT !.phase = "looking", !.timer = "none"])
        /\ secure' = Queued(o, op) /\ UNCHANGED <<records, server, budget>>
    BY <1>1, <1>5 DEF Flushes
  <2>2. RecordsInv' /\ OwnersStay /\ server' \in Server BY <2>1, LookingKeeps
  <2>3. op \in Operation /\ Belongs(op, o, View.owner)
    <3>1. NoToken \in Token /\ NoToken[1] = NoOne BY DEF NoToken, Token, Anyone
    <3>2. n \in 0..MaxBindings /\ View.owner[n] = o BY DiagnosticAssumption DEF Bindings, View
    <3> QED BY <3>1, <3>2, OpBelongs
  <2> HIDE DEF op
  <2>4. SecureGood(secure', View.owner) BY <1>2, <2>1, <2>3, QueuedGood DEF SecureInv
  <2>5. PartiesInv' BY <2>2 DEF SecureInv, PartiesInv
  <2> QED BY <2>2, <2>4, <2>5, Together
<1> QED BY <1>4, <1>5

LEMMA RegisteredKeeps ==
    ASSUME DiagnosticInv, NEW n \in Bindings, Registered(n)
    PROVE  DiagnosticInv'
<1> USE DEF DiagnosticInv
<1> DEFINE b == bindings[n]
           token == b.token
           op == Op("set", token, n)
<1>1. Sound(View, b) /\ b.owner # NoOne /\ b.owner \in Anyone
  BY Bound DEF Registered, RecordsInv, Anyone
<1>2. token \in Token /\ token[1] \in {NoOne, b.owner} BY <1>1 DEF Sound, Binding
<1>3. UNCHANGED <<active, account, logout>> BY DEF Registered
<1>4. ASSUME RecordsInv', OwnersStay, server' \in Server, SecureGood(secure', View.owner)
      PROVE  DiagnosticInv'
  <2>1. PartiesInv' BY <1>3, <1>4 DEF SecureInv, PartiesInv
  <2> QED BY <1>4, <2>1, Together
<1>5. CASE Sends(n, b, token) /\ secure' = [secure EXCEPT ![b.owner].token = token]
  <2>1. RecordsInv' /\ OwnersStay /\ server' \in Server BY <1>1, <1>2, <1>3, <1>5, SendsKeeps
  <2>2. SecureGood([secure EXCEPT ![b.owner].token = token], View.owner)
    BY <1>1, <1>2, TokenStored DEF SecureInv
  <2> QED BY <1>4, <1>5, <2>1, <2>2
<1>6. CASE BatchGoes(n, b, token, FALSE) /\ secure' = Queued(b.owner, op)
  <2>1. RecordsInv' /\ OwnersStay /\ server' \in Server BY <1>1, <1>2, <1>3, <1>6, BatchKeeps
  <2>2. n \in 0..MaxBindings /\ View.owner[n] = b.owner
    BY DiagnosticAssumption DEF Bindings, View
  <2>3. op \in Operation /\ Belongs(op, b.owner, View.owner) BY <1>1, <1>2, <2>2, OpBelongs
  <2> HIDE DEF op
  <2>4. SecureGood(secure', View.owner) BY <1>1, <1>6, <2>3, QueuedGood DEF SecureInv
  <2> QED BY <1>4, <2>1, <2>4
<1> QED BY <1>5, <1>6 DEF Registered

LEMMA WorksKeep ==
    ASSUME DiagnosticInv, NEW n \in Bindings, Works(n) \/ TimerFires(n)
    PROVE  DiagnosticInv'
<1> USE DEF DiagnosticInv
<1>1. CASE StorageCommits(n)
  <2>1. UNCHANGED <<secure, server, account, logout>> BY <1>1 DEF StorageCommits
  <2> QED BY <1>1, <2>1, StorageCommitsKeeps, OthersRest
<1>2. CASE HydrateMerges(n)
  <2>1. UNCHANGED <<secure, server, account, logout>> BY <1>2 DEF HydrateMerges
  <2> QED BY <1>2, <2>1, HydrateMergesKeeps, OthersRest
<1>3. CASE RegisterBegins(n)
  <2> DEFINE b == bindings[n]
             token == <<account.bearer, server.issued + 1>>
  <2>1. RecordsInv' /\ OwnersStay BY <1>3, RegisterBeginsKeeps
  <2>2. UNCHANGED <<secure, account, logout>> BY <1>3 DEF RegisterBegins
  <2>3. b.owner \in Owners BY <1>3, Bound DEF RegisterBegins
  <2>4. server' \in Server
    <3>1. server \in Server BY DEF SecureInv, PartiesInv
    <3>2. CASE ~MayRegister(b.owner) BY <1>3, <3>1, <3>2 DEF RegisterBegins
    <3>3. CASE MayRegister(b.owner)
      <4>1. token \in Owners \X Nat BY <2>3, <3>1, <3>3 DEF MayRegister, Server
      <4>2. server' = [server EXCEPT !.valid = @ \cup {token}, !.issued = @ + 1]
        BY <1>3, <3>3 DEF RegisterBegins
      <4> HIDE DEF token
      <4>3. /\ server.valid \cup {token} \in SUBSET (Owners \X Nat)
            /\ server.issued + 1 \in Nat
        BY <3>1, <4>1 DEF Server
      <4> QED BY <3>1, <4>2, <4>3 DEF Server
    <3> QED BY <3>2, <3>3
  <2>5. PartiesInv' /\ SecureGood(secure', View.owner) BY <2>2, <2>4 DEF SecureInv, PartiesInv
  <2> QED BY <2>1, <2>5, Together
<1>4. CASE Registered(n) BY <1>4, RegisteredKeeps
<1>5. CASE Answered(n)
  <2>1. UNCHANGED <<secure, server, account, logout>> BY <1>5 DEF Answered
  <2> QED BY <1>5, <2>1, AnsweredKeeps, OthersRest
<1>6. CASE Rejected(n)
  <2> DEFINE b == bindings[n]
  <2>1. Sound(View, b) /\ b.owner # NoOne /\ b.owner \in Anyone
    BY <1>6, Bound DEF Rejected, RecordsInv, Anyone
  <2>2. b.token \in Token /\ b.token[1] \in {NoOne, b.owner} BY <2>1 DEF Sound, Binding
  <2>3. /\ Put(n, Finished(DropsCache(b), FALSE)) /\ secure' = Removal(b.owner, b.token)
        /\ UNCHANGED <<active, records, server, account, logout>>
    BY <1>6 DEF Rejected
  <2>4. RecordsInv' /\ OwnersStay BY <2>1, <2>3, FinishedGoesOn
  <2>5. SecureGood(secure', View.owner) BY <2>1, <2>2, <2>3, RemovalGood DEF SecureInv
  <2>6. PartiesInv' BY <2>3 DEF SecureInv, PartiesInv
  <2> QED BY <2>4, <2>5, <2>6, Together
<1>7. CASE LastFlush(n)
  <2>1. bindings[n].owner # NoOne BY <1>7, Bound DEF LastFlush
  <2>2. Flushes(n, [bindings[n] EXCEPT !.leaving = "last"]) /\ UNCHANGED <<active, account, logout>>
    BY <1>7 DEF LastFlush
  <2> QED BY <2>1, <2>2, FlushesKeeps
<1>8. CASE TimerFires(n)
  <2>1. bindings[n].owner # NoOne BY <1>8, Bound DEF TimerFires
  <2> QED BY <1>8, <2>1, FlushesKeeps DEF TimerFires
<1> QED BY <1>1, <1>2, <1>3, <1>4, <1>5, <1>6, <1>7, <1>8 DEF Works

LEMMA WorkFailsKeeps ==
    ASSUME DiagnosticInv, NEW n \in Bindings, WorkFails(n)
    PROVE  DiagnosticInv'
<1> USE DEF DiagnosticInv
<1>1. UNCHANGED <<secure, server, account, logout>>
  BY DEF WorkFails, StorageFails, HydrateFails, LookUpFails, RegisterFails, AnswerIsLost
<1>2. CASE StorageFails(n) BY <1>1, <1>2, StorageFailsKeeps, OthersRest
<1>3. CASE HydrateFails(n) BY <1>1, <1>3, HydrateFailsKeeps, OthersRest
<1>4. CASE LookUpFails(n) BY <1>1, <1>4, LookUpFailsKeeps, OthersRest
<1>5. CASE RegisterFails(n) \/ AnswerIsLost(n)
  <2>1. bindings[n].owner # NoOne BY <1>5, Bound DEF RegisterFails, AnswerIsLost
  <2>2. Put(n, Finished(bindings[n], FALSE)) /\ UNCHANGED <<records, server, active>>
    BY <1>5 DEF RegisterFails, AnswerIsLost
  <2>3. RecordsInv' /\ OwnersStay BY <2>1, <2>2, FinishedGoesOn
  <2> QED BY <1>1, <2>3, OthersRest
<1> QED BY <1>2, <1>3, <1>4, <1>5 DEF WorkFails

LEMMA SecureRunsKeeps ==
    ASSUME DiagnosticInv, NEW o \in Owners, SecureRuns(o)
    PROVE  DiagnosticInv'
<1> USE DEF DiagnosticInv
<1> DEFINE op == Head(secure[o].ops)
           rest == Tail(secure[o].ops)
           n == op.by
           token == secure[o].token
           w == View.owner
<1>1. secure[o].ops # <<>> /\ UNCHANGED <<active, account>> BY DEF SecureRuns
<1>2. o \in Anyone /\ o # NoOne BY DiagnosticAssumption DEF Anyone
<1>3. SecureGood(secure, w) BY DEF SecureInv
<1>4. /\ token \in Token /\ token[1] \in {NoOne, o} /\ secure[o].ops \in Seq(Operation)
      /\ AllBelong(secure[o].ops, o, w)
  BY <1>2, <1>3, Entry
<1>5. op \in Operation /\ Belongs(op, o, w) /\ rest \in Seq(Operation) /\ AllBelong(rest, o, w)
  BY <1>1, <1>4, OpsRest
<1>6. op.token \in Token /\ op.token[1] \in {NoOne, o} BY <1>5 DEF Belongs, Operation
<1>7. SecureGood([secure EXCEPT ![o].ops = rest], w)
  <2> HIDE DEF rest
  <2> QED BY <1>2, <1>3, <1>5, OpsReplaced
<1>8. n # 0 => n \in Bindings /\ bindings[n].owner = o
  BY <1>5, DiagnosticAssumption DEF Belongs, Operation, Bindings, View
<1>9. CASE op.op = "get" /\ n # 0
  <2>1. /\ secure' = [secure EXCEPT ![o].ops = rest] /\ UNCHANGED logout
        /\ IF bindings[n].phase = "looking" THEN Found(n, bindings[n], token)
           ELSE UNCHANGED <<bindings, records, server, budget>>
    BY <1>9 DEF SecureRuns
  <2>2. SecureGood(secure', w) BY <1>7, <2>1
  <2>3. RecordsInv' /\ OwnersStay /\ server' \in Server
    <3>1. CASE bindings[n].phase = "looking"
      <4>1. n \in Bindings /\ bindings[n].owner # NoOne /\ token[1] \in {NoOne, bindings[n].owner}
        BY <1>2, <1>4, <1>8, <1>9
      <4>2. Found(n, bindings[n], token) BY <2>1, <3>1
      <4> HIDE DEF n, token
      <4> QED BY <1>1, <1>4, <4>1, <4>2, FoundKeeps
    <3>2. CASE bindings[n].phase # "looking"
      <4>1. UNCHANGED <<bindings, records, server>> BY <2>1, <3>2
      <4> QED BY <1>1, <4>1, RecordsRest DEF records, SecureInv, PartiesInv
    <3> QED BY <3>1, <3>2
  <2>4. PartiesInv' BY <1>1, <2>1, <2>3 DEF SecureInv, PartiesInv
  <2> QED BY <2>2, <2>3, <2>4, Together
<1>10. CASE UNCHANGED <<bindings, records, server, budget>> /\ SecureGood(secure', w)
            /\ logout' \in {logout, [logout EXCEPT !.phase = "leaving", !.token = token]}
            /\ (logout' # logout => logout.owner = o)
  <2>1. RecordsInv' /\ OwnersStay BY <1>1, <1>10, RecordsRest DEF records
  <2>2. logout \in Logout /\ logout.token[1] \in {NoOne, logout.owner} BY DEF SecureInv, PartiesInv
  <2>3. logout' \in Logout /\ logout'.token[1] \in {NoOne, logout'.owner}
    <3>1. CASE logout' = logout BY <2>2, <3>1
    <3>2. CASE logout' # logout
      <4>1. logout' = [logout EXCEPT !.phase = "leaving", !.token = token] /\ logout.owner = o
        BY <1>10, <3>2
      <4> HIDE DEF token
      <4> QED BY <1>4, <2>2, <4>1 DEF Logout
    <3> QED BY <3>1, <3>2
  <2>4. PartiesInv' BY <1>1, <1>10, <2>3 DEF SecureInv, PartiesInv
  <2> QED BY <1>10, <2>1, <2>4, Together
<1>11. CASE op.op = "get" /\ n = 0
  <2>1. /\ secure' = [secure EXCEPT ![o].ops = rest]
        /\ logout' = IF logout.phase = "reading" /\ logout.owner = o /\ op \notin Range(rest)
                     THEN [logout EXCEPT !.phase = "leaving", !.token = token] ELSE logout
        /\ UNCHANGED <<bindings, records, server, budget>>
    BY <1>11 DEF SecureRuns
  <2> QED BY <1>7, <1>10, <2>1
<1>12. CASE op.op = "set"
  <2> DEFINE taken == Op("remove", op.token, 0)
             later == Append(rest, taken)
  <2>1. /\ secure' = [secure EXCEPT ![o] =
              [token |-> op.token, ops |-> IF bindings[n].ended THEN later ELSE rest]]
        /\ UNCHANGED <<bindings, records, server, logout, budget>>
    BY <1>12 DEF SecureRuns
  <2>2. taken \in Operation /\ Belongs(taken, o, w)
    <3>1. 0 \in 0..MaxBindings BY DiagnosticAssumption
    <3> HIDE DEF op
    <3> QED BY <1>6, <3>1, OpBelongs
  <2> HIDE DEF op, rest, taken, w
  <2>3. later \in Seq(Operation) /\ AllBelong(later, o, w) BY <1>5, <2>2, OpsLater
  <2> HIDE DEF later
  <2>4. /\ SecureGood([secure EXCEPT ![o] = [token |-> op.token, ops |-> later]], w)
        /\ SecureGood([secure EXCEPT ![o] = [token |-> op.token, ops |-> rest]], w)
    BY <1>2, <1>3, <1>5, <1>6, <2>3, OneSecured
  <2>5. SecureGood(secure', w) BY <2>1, <2>4
  <2> QED BY <1>10, <2>1, <2>5 DEF w
<1>13. CASE op.op = "remove"
  <2> DEFINE left == Without(token, op.token)
  <2>1. /\ secure' = [secure EXCEPT ![o] = [token |-> left, ops |-> rest]]
        /\ UNCHANGED <<bindings, records, server, logout, budget>>
    BY <1>13 DEF SecureRuns
  <2>2. left \in Token /\ left[1] \in {NoOne, o}
    BY <1>4 DEF Without, NoToken, Token, Anyone
  <2> HIDE DEF rest, left, w
  <2>3. SecureGood([secure EXCEPT ![o] = [token |-> left, ops |-> rest]], w)
    BY <1>2, <1>3, <1>5, <2>2, OneSecured
  <2>4. SecureGood(secure', w) BY <2>1, <2>3
  <2> QED BY <1>10, <2>1, <2>4 DEF w
<1>14. op.op \in {"get", "set", "remove"} BY <1>5 DEF Operation
<1> QED BY <1>9, <1>11, <1>12, <1>13, <1>14

LEMMA SecureFailsKeeps ==
    ASSUME DiagnosticInv, NEW o \in Owners, SecureFails(o)
    PROVE  DiagnosticInv'
<1> USE DEF DiagnosticInv
<1> DEFINE rest == Tail(secure[o].ops)
<1>1. /\ secure[o].ops # <<>> /\ secure' = [secure EXCEPT ![o].ops = rest]
      /\ UNCHANGED <<bindings, active, records, server, account, logout>>
  BY DEF SecureFails, SecureInv, SecureGood
<1>2. o \in Anyone /\ SecureGood(secure, View.owner) BY DEF Anyone, SecureInv
<1>3. secure[o].ops \in Seq(Operation) /\ AllBelong(secure[o].ops, o, View.owner) BY <1>2, Entry
<1>4. rest \in Seq(Operation) /\ AllBelong(rest, o, View.owner) BY <1>1, <1>3, OpsRest
<1> HIDE DEF rest
<1>5. SecureGood([secure EXCEPT ![o].ops = rest], View.owner) BY <1>2, <1>4, OpsReplaced
<1>6. RecordsInv' /\ OwnersStay BY <1>1, RecordsRest DEF records
<1>7. PartiesInv' BY <1>1 DEF SecureInv, PartiesInv
<1> QED BY <1>1, <1>5, <1>6, <1>7, Together

(* A step of the parties alone.                                                *)
LEMMA PartiesStep ==
    ASSUME DiagnosticInv, UNCHANGED <<bindings, records>>, active' \in {active, 0},
           server'.received = server.received, server'.refused = server.refused,
           SecureGood(secure', View.owner), PartiesInv'
    PROVE  DiagnosticInv'
<1>1. RecordsInv' /\ OwnersStay BY RecordsRest DEF DiagnosticInv, records
<1> QED BY <1>1, Together

(* The server withdraws credentials.                                           *)
LEMMA ServerWithdraws ==
    ASSUME DiagnosticInv, NEW v \in SUBSET server.valid, NEW l \in SUBSET Anyone,
           server' = [server EXCEPT !.valid = v, !.late = l],
           NEW p \in {"none", "reading", "leaving", "revoking", "revoked"},
           logout' \in {logout, [logout EXCEPT !.phase = p]},
           UNCHANGED <<bindings, active, records, secure, account>>
    PROVE  DiagnosticInv'
<1>1. /\ server \in Server /\ account \in Account /\ SecureGood(secure, View.owner)
      /\ logout \in Logout /\ logout.token[1] \in {NoOne, logout.owner}
  BY DEF DiagnosticInv, SecureInv, PartiesInv
<1>2. server' \in Server /\ server'.received = server.received /\ server'.refused = server.refused
  BY <1>1 DEF Server
<1>3. logout' \in Logout /\ logout'.token[1] \in {NoOne, logout'.owner}
  BY <1>1 DEF Logout
<1>4. PartiesInv' /\ SecureGood(secure', View.owner) BY <1>1, <1>2, <1>3 DEF PartiesInv
<1> QED BY <1>2, <1>4, PartiesStep

LEMMA RevocationsKeep ==
    ASSUME DiagnosticInv,
           ServerRevokes \/ RevocationIsLate \/ (\E o \in Owners : LateRevocation(o)) \/ TokenExpires
    PROVE  DiagnosticInv'
<1>1. server \in Server /\ account.driver \in Anyone
  BY DEF DiagnosticInv, SecureInv, PartiesInv, Account
<1>2. server.late \subseteq Anyone BY <1>1 DEF Server
<1>3. /\ server = [server EXCEPT !.valid = server.valid, !.late = server.late]
      /\ \A v : [server EXCEPT !.valid = v] = [server EXCEPT !.valid = v, !.late = server.late]
      /\ \A l : [server EXCEPT !.late = l] = [server EXCEPT !.valid = server.valid, !.late = l]
  BY <1>1 DEF Server
<1>4. CASE ServerRevokes
  <2> DEFINE v == server.valid \ Revoked(account.driver)
  <2>1. /\ server' = [server EXCEPT !.valid = v, !.late = server.late]
        /\ logout' = [logout EXCEPT !.phase = "revoked"]
        /\ UNCHANGED <<bindings, active, records, secure, account>>
    BY <1>3, <1>4 DEF ServerRevokes
  <2>2. v \in SUBSET server.valid OBVIOUS
  <2> HIDE DEF v
  <2> QED BY <1>2, <2>1, <2>2, ServerWithdraws
<1>5. CASE RevocationIsLate
  <2> DEFINE l == server.late \cup {account.driver}
  <2>1. /\ server' = [server EXCEPT !.valid = server.valid, !.late = l]
        /\ logout' = [logout EXCEPT !.phase = "revoked"]
        /\ UNCHANGED <<bindings, active, records, secure, account>>
    BY <1>3, <1>5 DEF RevocationIsLate
  <2>2. l \in SUBSET Anyone BY <1>1, <1>2
  <2> HIDE DEF l
  <2> QED BY <2>1, <2>2, ServerWithdraws
<1>6. ASSUME NEW o \in Owners, LateRevocation(o) PROVE DiagnosticInv'
  <2> DEFINE v == server.valid \ Revoked(o)
             l == server.late \ {o}
  <2>1. /\ server' = [server EXCEPT !.valid = v, !.late = l]
        /\ UNCHANGED <<bindings, active, records, secure, account, logout>>
    BY <1>1, <1>6 DEF LateRevocation, Server
  <2>2. v \in SUBSET server.valid /\ l \in SUBSET Anyone BY <1>2
  <2> HIDE DEF v, l
  <2> QED BY <2>1, <2>2, ServerWithdraws
<1>7. CASE TokenExpires
  <2>1. PICK token \in server.valid : server' = [server EXCEPT !.valid = @ \ {token}]
    BY <1>7 DEF TokenExpires
  <2> DEFINE v == server.valid \ {token}
  <2>2. /\ server' = [server EXCEPT !.valid = v, !.late = server.late]
        /\ UNCHANGED <<bindings, active, records, secure, account, logout>>
    BY <1>3, <1>7, <2>1 DEF TokenExpires
  <2>3. v \in SUBSET server.valid OBVIOUS
  <2> HIDE DEF v
  <2> QED BY <1>2, <2>2, <2>3, ServerWithdraws
<1> QED BY <1>4, <1>5, <1>6, <1>7

(* The parties' types.                                                         *)
LEMMA PartiesAre ==
    ASSUME DiagnosticInv
    PROVE  /\ server \in Server /\ account \in Account /\ logout \in Logout
           /\ logout.token[1] \in {NoOne, logout.owner} /\ SecureGood(secure, View.owner)
           /\ account.driver \in Anyone /\ account.bearer \in Anyone /\ account.due \in Anyone
           /\ logout.binding \in {0} \cup Bindings /\ logout.owner \in Anyone
           /\ logout.token \in Token
<1>1. server \in Server /\ account \in Account /\ logout \in Logout
  BY DEF DiagnosticInv, SecureInv, PartiesInv
<1>2. account.driver \in Anyone /\ account.bearer \in Anyone /\ account.due \in Anyone
  BY <1>1 DEF Account
<1>3. /\ logout.binding \in {0} \cup Bindings /\ logout.owner \in Anyone
      /\ logout.token \in Token
  BY <1>1 DEF Logout
<1> QED BY <1>1, <1>2, <1>3 DEF DiagnosticInv, SecureInv, PartiesInv

LEMMA LeaveBeginsKeeps ==
    ASSUME RecordsInv, NEW n \in Bindings, bindings[n].owner # NoOne,
           Put(n, LeaveBegins(bindings[n])), UNCHANGED <<records, server>>, active' \in {active, 0}
    PROVE  RecordsInv' /\ OwnersStay
<1> DEFINE b == bindings[n]
           d == LeaveBegins(b)
<1>1. b \in Binding /\ b.token[1] \in {NoOne, b.owner} BY DEF RecordsInv, Sound
<1>2. /\ d \in Binding /\ d.owner = b.owner /\ d.memory = b.memory /\ d.settled = b.settled
      /\ d.chain = b.chain /\ d.read = b.read /\ d.cache = b.cache /\ d.answer = b.answer
      /\ d.token = b.token
  BY <1>1 DEF LeaveBegins, Binding
<1> HIDE DEF d
<1>3. Put(n, d) BY DEF d
<1> QED BY <1>1, <1>2, <1>3, TouchedGoesOn

LEMMA SignsInKeeps ==
    ASSUME DiagnosticInv, NEW o \in Owners, SignsIn(o)
    PROVE  DiagnosticInv'
<1>1. /\ account' = [account EXCEPT !.driver = o, !.bearer = NoOne, !.due = o, !.changed = TRUE,
                                    !.suppress = FALSE, !.fresh = FALSE]
      /\ active' = 0 /\ UNCHANGED <<records, secure, server, logout>>
      /\ active = 0 => UNCHANGED bindings
      /\ active # 0 => Put(active, LeaveBegins(bindings[active]))
  BY DEF SignsIn, Put
<1>2. account' \in Account BY <1>1, PartiesAre DEF Account, Anyone
<1>3. PartiesInv' /\ SecureGood(secure', View.owner) BY <1>1, <1>2, PartiesAre DEF PartiesInv
<1>4. CASE active = 0 BY <1>1, <1>3, <1>4, PartiesStep
<1>5. CASE active # 0
  <2>1. active \in Bindings /\ bindings[active].owner # NoOne
    BY <1>5 DEF DiagnosticInv, RecordsInv
  <2>2. RecordsInv' /\ OwnersStay BY <1>1, <1>5, <2>1, LeaveBeginsKeeps DEF DiagnosticInv
  <2> QED BY <1>3, <2>2, Together
<1> QED BY <1>4, <1>5

LEMMA AccessKeeps ==
    ASSUME DiagnosticInv,
           (\E changed \in BOOLEAN : AccessObserved(changed)) \/ AccessCleared
    PROVE  DiagnosticInv'
<1>1. /\ UNCHANGED <<bindings, active, records, secure, server, logout>>
      /\ \/ \E c \in BOOLEAN : account' = [account EXCEPT !.due = account.driver, !.changed = c,
                                                          !.fresh = FALSE]
         \/ account' = [account EXCEPT !.driver = NoOne, !.bearer = NoOne, !.due = NoOne,
                                       !.suppress = FALSE, !.fresh = FALSE]
  <2>1. CASE AccessCleared BY <2>1 DEF AccessCleared
  <2>2. ASSUME NEW changed \in BOOLEAN, AccessObserved(changed)
        PROVE  /\ UNCHANGED <<bindings, active, records, secure, server, logout>>
               /\ \E c \in BOOLEAN : account' = [account EXCEPT !.due = account.driver,
                                                 !.changed = c, !.fresh = FALSE]
    <3>1. account.changed \in BOOLEAN BY PartiesAre DEF Account
    <3>2. changed \/ (account.changed /\ account.due # NoOne) \in BOOLEAN OBVIOUS
    <3> QED BY <2>2, <3>2 DEF AccessObserved
  <2> QED BY <2>1, <2>2
<1>2. account' \in Account BY <1>1, PartiesAre DEF Account, Anyone
<1>3. PartiesInv' /\ SecureGood(secure', View.owner) BY <1>1, <1>2, PartiesAre DEF PartiesInv
<1> QED BY <1>1, <1>3, PartiesStep

LEMMA RestoresKeeps ==
    ASSUME DiagnosticInv, Restores
    PROVE  DiagnosticInv'
<1>1. /\ account.driver # NoOne /\ Bind(account.driver)
      /\ account' = [account EXCEPT !.fresh = FALSE] /\ UNCHANGED <<secure, server, logout>>
  BY DEF Restores
<1>2. account.driver \in Owners BY <1>1, PartiesAre DEF Anyone
<1>3. RecordsInv' /\ OwnersGrow BY <1>1, <1>2, BindKeeps DEF DiagnosticInv
<1>4. account' \in Account BY <1>1, PartiesAre DEF Account
<1>5. PartiesInv' /\ SecureGood(secure', View.owner) BY <1>1, <1>4, PartiesAre DEF PartiesInv
<1> QED BY <1>3, <1>5, Together

LEMMA BindsKeeps ==
    ASSUME DiagnosticInv, Binds
    PROVE  DiagnosticInv'
<1> DEFINE o == account.due
<1>1. /\ o # NoOne /\ UNCHANGED <<secure, server, logout>>
      /\ account' = [account EXCEPT !.due = NoOne, !.changed = FALSE, !.bearer = o]
      /\ \/ /\ active # 0 /\ Put(active, Asks(bindings[active], TRUE))
            /\ UNCHANGED <<active, records>>
         \/ Bind(o)
  BY DEF Binds
<1>2. o \in Owners BY <1>1, PartiesAre DEF Anyone
<1>3. account' \in Account BY <1>1, <1>2, PartiesAre DEF Account, Anyone
<1>4. PartiesInv' /\ SecureGood(secure', View.owner) BY <1>1, <1>3, PartiesAre DEF PartiesInv
<1>5. CASE Bind(o)
  <2>1. RecordsInv' /\ OwnersGrow BY <1>1, <1>2, <1>5, BindKeeps DEF DiagnosticInv
  <2> QED BY <1>4, <2>1, Together
<1>6. CASE active # 0 /\ Put(active, Asks(bindings[active], TRUE)) /\ UNCHANGED <<active, records>>
  <2>1. active \in Bindings /\ bindings[active].owner # NoOne /\ Sound(View, bindings[active])
    <3>1. active \in Bindings /\ bindings[active].owner # NoOne
      BY <1>6 DEF DiagnosticInv, RecordsInv
    <3> QED BY <3>1 DEF DiagnosticInv, RecordsInv
  <2> DEFINE b == bindings[active]
             d == Asks(b, TRUE)
  <2>2. Sound(View, d) /\ d.owner = b.owner /\ d.memory = b.memory /\ Appending(d) = Appending(b)
    BY <2>1, AsksKeeps
  <2>3. Put(active, d) BY <1>6
  <2> HIDE DEF d
  <2>4. RecordsInv' /\ OwnersStay
    BY <1>1, <1>6, <2>1, <2>2, <2>3, OneGoesOn DEF DiagnosticInv, records
  <2> QED BY <1>4, <2>4, Together
<1> QED BY <1>1, <1>5, <1>6

LEMMA LeavesKeep ==
    ASSUME DiagnosticInv, Leaves
    PROVE  DiagnosticInv'
<1>1. ASSUME NEW n \in Bindings, ReplacedLeaves(n) PROVE DiagnosticInv'
  <2> DEFINE o == bindings[n].owner
  <2>1. /\ LeaveIsOver(n) /\ UNCHANGED <<active, server, account, logout>>
        /\ secure' = secure \/ secure' = Removal(o, NoToken)
    BY <1>1 DEF ReplacedLeaves
  <2>2. RecordsInv' /\ OwnersStay BY <2>1, LeaveIsOverKeeps DEF DiagnosticInv
  <2>3. o \in Anyone BY DEF DiagnosticInv, RecordsInv, Binding
  <2>4. NoToken \in Token /\ NoToken[1] = NoOne BY DEF NoToken, Token, Anyone
  <2>5. SecureGood(Removal(o, NoToken), View.owner) BY <2>3, <2>4, PartiesAre, RemovalGood
  <2>6. PartiesInv' /\ SecureGood(secure', View.owner)
    BY <2>1, <2>5, PartiesAre DEF PartiesInv
  <2> QED BY <2>2, <2>6, Together
<1>2. CASE CredentialUnread
  <2>1. /\ logout' = [logout EXCEPT !.phase = "leaving"]
        /\ UNCHANGED <<bindings, active, records, secure, server, account>>
    BY <1>2 DEF CredentialUnread
  <2>2. logout' \in Logout /\ logout'.token[1] \in {NoOne, logout'.owner}
    BY <2>1, PartiesAre DEF Logout
  <2>3. PartiesInv' /\ SecureGood(secure', View.owner) BY <2>1, <2>2, PartiesAre DEF PartiesInv
  <2> QED BY <2>1, <2>3, PartiesStep
<1>3. CASE LogoutLeaves
  <2> DEFINE n == logout.binding
  <2>1. /\ n \in Bindings /\ ~bindings[n].ended /\ Put(n, LeaveBegins(bindings[n]))
        /\ UNCHANGED <<active, records, secure, server, account, logout>>
    BY <1>3, PartiesAre DEF LogoutLeaves
  <2> HIDE DEF n
  <2>2. bindings[n].owner # NoOne
    <3>1. bindings[n] \in Binding BY <2>1 DEF DiagnosticInv, RecordsInv
    <3>2. bindings[n].ended = FALSE BY <2>1, <3>1 DEF Binding
    <3> QED BY <2>1, <3>2, Bound DEF DiagnosticInv
  <2>3. RecordsInv' /\ OwnersStay BY <2>1, <2>2, LeaveBeginsKeeps DEF DiagnosticInv
  <2> QED BY <2>1, <2>3, OthersRest
<1>4. CASE LogoutLeft
  <2>1. /\ account' = [account EXCEPT !.bearer = NoOne]
        /\ \E p \in {"revoking", "revoked"} : logout' = [logout EXCEPT !.phase = p]
        /\ UNCHANGED <<active, secure, server>>
        /\ logout.binding = 0 => UNCHANGED <<bindings, records>>
        /\ logout.binding # 0 => LeaveIsOver(logout.binding)
    BY <1>4 DEF LogoutLeft
  <2>2. account' \in Account BY <2>1, PartiesAre DEF Account, Anyone
  <2>3. logout' \in Logout /\ logout'.token[1] \in {NoOne, logout'.owner}
    BY <2>1, PartiesAre DEF Logout
  <2>4. PartiesInv' /\ SecureGood(secure', View.owner)
    BY <2>1, <2>2, <2>3, PartiesAre DEF PartiesInv
  <2>5. CASE logout.binding = 0 BY <2>1, <2>4, <2>5, PartiesStep
  <2>6. CASE logout.binding # 0
    <3>1. logout.binding \in Bindings BY <2>6, PartiesAre
    <3>2. RecordsInv' /\ OwnersStay BY <2>1, <2>6, <3>1, LeaveIsOverKeeps DEF DiagnosticInv
    <3> QED BY <2>4, <3>2, Together
  <2> QED BY <2>5, <2>6
<1>5. CASE ServerRevokes \/ RevocationIsLate BY <1>5, RevocationsKeep
<1>6. CASE LogoutEnds
  <2>1. /\ secure' = secure \/ secure' = Removal(logout.owner, logout.token)
        /\ account' = [account EXCEPT !.driver = NoOne, !.bearer = NoOne, !.suppress = FALSE]
        /\ logout' = NoLogout /\ UNCHANGED <<bindings, active, records, server>>
    BY <1>6 DEF LogoutEnds
  <2>2. SecureGood(Removal(logout.owner, logout.token), View.owner) BY PartiesAre, RemovalGood
  <2>3. account' \in Account BY <2>1, PartiesAre DEF Account, Anyone
  <2>4. NoLogout \in Logout /\ NoLogout.token[1] \in {NoOne, NoLogout.owner}
    BY DEF NoLogout, NoToken, Logout, Token, Anyone
  <2>5. PartiesInv' /\ SecureGood(secure', View.owner)
    BY <2>1, <2>2, <2>3, <2>4, PartiesAre DEF PartiesInv
  <2> QED BY <2>1, <2>5, PartiesStep
<1> QED BY <1>1, <1>2, <1>3, <1>4, <1>5, <1>6 DEF Leaves

LEMMA LogoutBeginsKeeps ==
    ASSUME DiagnosticInv, LogoutBegins
    PROVE  DiagnosticInv'
<1> DEFINE o == IF active # 0 THEN bindings[active].owner ELSE account.bearer
           op == Op("get", NoToken, 0)
<1>1. /\ account' = [account EXCEPT !.suppress = TRUE, !.due = NoOne, !.fresh = FALSE]
      /\ active' = 0 /\ UNCHANGED <<bindings, records, server>>
      /\ \/ /\ logout' = [phase |-> "leaving", binding |-> active, owner |-> o,
                          token |-> secure[o].token]
            /\ UNCHANGED secure
         \/ /\ logout' = [phase |-> "reading", binding |-> active, owner |-> o, token |-> NoToken]
            /\ secure' = Queued(o, op)
  BY DEF LogoutBegins
<1>2. o \in Anyone /\ active \in {0} \cup Bindings
  <2>1. active \in {0} \cup Bindings BY DEF DiagnosticInv, RecordsInv
  <2>2. active # 0 => bindings[active] \in Binding BY <2>1 DEF DiagnosticInv, RecordsInv
  <2> QED BY <2>1, <2>2, PartiesAre DEF Binding
<1> HIDE DEF o
<1>3. secure[o].token \in Token /\ secure[o].token[1] \in {NoOne, o}
  BY <1>2, PartiesAre, Entry
<1>4. NoToken \in Token /\ NoToken[1] = NoOne BY DEF NoToken, Token, Anyone
<1>5. op \in Operation /\ Belongs(op, o, View.owner)
  <2>1. 0 \in 0..MaxBindings BY DiagnosticAssumption
  <2> QED BY <1>4, <2>1, OpBelongs
<1> HIDE DEF op
<1>6. SecureGood(Queued(o, op), View.owner) BY <1>2, <1>5, PartiesAre, QueuedGood
<1>7. account' \in Account BY <1>1, PartiesAre DEF Account, Anyone
<1>8. logout' \in Logout /\ logout'.token[1] \in {NoOne, logout'.owner}
  BY <1>1, <1>2, <1>3, <1>4 DEF Logout
<1>9. PartiesInv' /\ SecureGood(secure', View.owner)
  BY <1>1, <1>6, <1>7, <1>8, PartiesAre DEF PartiesInv
<1> QED BY <1>1, <1>9, PartiesStep

LEMMA CrashKeepsAll ==
    ASSUME DiagnosticInv, Crash
    PROVE  DiagnosticInv'
<1>1. RecordsInv' /\ OwnersGrow BY CrashKeeps DEF DiagnosticInv
<1>2. /\ secure' = [o \in DOMAIN secure |-> [secure[o] EXCEPT !.ops = <<>>]]
      /\ account' = [account EXCEPT !.bearer = NoOne, !.due = NoOne, !.changed = FALSE,
                                    !.suppress = FALSE, !.fresh = TRUE]
      /\ logout' = NoLogout /\ UNCHANGED server
  BY DEF Crash
<1>3. NoLogout \in Logout /\ NoLogout.token[1] \in {NoOne, NoLogout.owner}
  BY DEF NoLogout, NoToken, Logout, Token, Anyone
<1>4. account' \in Account BY <1>2, PartiesAre DEF Account, Anyone
<1>5. SecureGood(secure', View.owner)
  <2>1. /\ DOMAIN secure = Anyone
        /\ \A o \in Anyone : secure[o] \in [token : Token, ops : Seq(Operation)]
    BY PartiesAre DEF SecureGood
  <2>2. \A o \in Anyone : secure'[o] = [secure[o] EXCEPT !.ops = <<>>]
    BY <1>2, <2>1
  <2>3. ASSUME NEW o \in Anyone
        PROVE  /\ secure'[o] \in [token : Token, ops : Seq(Operation)]
               /\ secure'[o].token = secure[o].token /\ secure'[o].ops = <<>>
    <3>1. secure[o] \in [token : Token, ops : Seq(Operation)] BY <2>1
    <3>2. <<>> \in Seq(Operation) OBVIOUS
    <3> QED BY <2>2, <3>1, <3>2
  <2>4. secure' \in [Anyone -> [token : Token, ops : Seq(Operation)]] BY <1>2, <2>1, <2>3
  <2>5. \A o : AllBelong(<<>>, o, View.owner) BY DEF AllBelong
  <2> QED BY <2>3, <2>4, <2>5, PartiesAre DEF SecureGood
<1>6. PartiesInv' BY <1>2, <1>3, <1>4, PartiesAre DEF PartiesInv
<1> QED BY <1>1, <1>5, <1>6, Together

--------------------------------------------------------------------------------
(* The theorems.                                                              *)

LEMMA DiagnosticInitInv == ASSUME DiagnosticInit PROVE DiagnosticInv
<1> USE DEF DiagnosticInit
<1>1. \A n \in Bindings : bindings[n] = Unbound /\ bindings[n] \in Binding
  BY UnboundIsTyped
<1>2. Unbound = [Unbound EXCEPT !.owner = Unbound.owner] BY DEF Unbound
<1>3. \A n \in Bindings : Sound(View, bindings[n]) BY <1>1, <1>2, UnboundIsSound
<1>4. made = <<>> /\ made \in Seq(Bindings) /\ Len(made) = 0 /\ Known(View) = {}
  BY DEF Known, View
<1>5. RecordsInv
  BY <1>1, <1>3, <1>4, DiagnosticAssumption DEF RecordsInv, Speaks, Accounted, Statuses
<1>6. SecureGood(secure, View.owner)
  <2>1. NoToken \in Token /\ NoToken[1] = NoOne BY DEF NoToken, Token, Anyone
  <2>2. \A o : AllBelong(<<>>, o, View.owner) BY DEF AllBelong
  <2> QED BY <2>1, <2>2 DEF SecureGood, Anyone
<1>7. PartiesInv
  <2>1. NoLogout \in Logout /\ NoLogout.token[1] \in {NoOne, NoLogout.owner}
    BY DEF NoLogout, NoToken, Logout, Token, Anyone
  <2>2. server \in Server BY DEF Server
  <2>3. account \in Account BY DiagnosticAssumption DEF Account, Anyone
  <2> QED BY <2>1, <2>2, <2>3 DEF PartiesInv
<1> QED BY <1>5, <1>6, <1>7 DEF DiagnosticInv, SecureInv

LEMMA DiagnosticStep == ASSUME DiagnosticInv, [DiagnosticNext]_vars PROVE DiagnosticInv'
<1>1. CASE Emit
  <2>1. UNCHANGED <<secure, server, account, logout>> BY <1>1 DEF Emit
  <2>2. RecordsInv' /\ View'.owner = View.owner BY <1>1, EmitKeeps DEF DiagnosticInv
  <2> QED BY <2>1, <2>2, OthersRest
<1>2. CASE \E n \in Bindings : Works(n) \/ TimerFires(n) \/ WorkFails(n)
  BY <1>2, WorksKeep, WorkFailsKeeps
<1>3. CASE \E o \in Owners : SecureRuns(o) \/ SecureFails(o) \/ LateRevocation(o)
  BY <1>3, SecureRunsKeeps, SecureFailsKeeps, RevocationsKeep
<1>4. CASE \E o \in Owners : SignsIn(o) BY <1>4, SignsInKeeps
<1>5. CASE (\E changed \in BOOLEAN : AccessObserved(changed)) \/ AccessCleared
  BY <1>5, AccessKeeps
<1>6. CASE Restores \/ Binds BY <1>6, RestoresKeeps, BindsKeeps
<1>7. CASE LogoutBegins \/ Leaves BY <1>7, LogoutBeginsKeeps, LeavesKeep
<1>8. CASE TokenExpires \/ Crash BY <1>8, RevocationsKeep, CrashKeepsAll
<1>9. CASE UNCHANGED vars
  <2>1. UNCHANGED <<bindings, active, records, secure, server, account, logout>>
    BY <1>9 DEF vars, records
  <2>2. PartiesInv' /\ SecureGood(secure', View.owner) BY <2>1, PartiesAre DEF PartiesInv
  <2> QED BY <2>1, <2>2, PartiesStep
<1> QED BY <1>1, <1>2, <1>3, <1>4, <1>5, <1>6, <1>7, <1>8, <1>9 DEF DiagnosticNext

(* Every outbox, chain of mutations, answer, status and credential says only    *)
(* what is so of the records and accounts it is about                          *)
(* (driverDiagnosticOutbox.ts, driverDiagnosticTransport.ts).                  *)
THEOREM DiagnosticInvHolds == DiagnosticSpec => []DiagnosticInv
<1>1. DiagnosticInit => DiagnosticInv BY DiagnosticInitInv
<1>2. DiagnosticInv /\ [DiagnosticNext]_vars => DiagnosticInv' BY DiagnosticStep
<1> QED BY <1>1, <1>2, PTL DEF DiagnosticSpec

(* No record disappears between the driver's report and the server: it is in    *)
(* the database or on its way there until the server decided about it, unless  *)
(* saving it failed or the limit pruned it (driverDiagnosticOutbox.ts           *)
(* acknowledge, hydrate, switchAccount).                                       *)
THEOREM NoRecordVanishes == DiagnosticSpec => []NothingVanishes
<1>1. DiagnosticInv => NothingVanishes
  <2> SUFFICES ASSUME DiagnosticInv, NEW r \in 1..Len(made)
      PROVE  \/ r \in disk \cup excused \cup server.refused
             \/ \E o \in Owners : <<r, o>> \in server.received
             \/ \E n \in Bindings : r \in bindings[n].memory \cup Pending(bindings[n], "append")
    BY DEF NothingVanishes
  <2>1. r \in Known(View) BY DEF Known, View
  <2>2. r \in disk \cup Gone(View) \/ \E n \in Bindings : r \in Appending(bindings[n])
    BY <2>1 DEF DiagnosticInv, RecordsInv, Accounted
  <2>3. \A n \in Bindings : Appending(bindings[n]) \subseteq Pending(bindings[n], "append")
    BY PendingIsAppending DEF DiagnosticInv, RecordsInv
  <2>4. CASE r \in {pair[1] : pair \in server.received}
    <3>1. PICK pair \in server.received : r = pair[1] BY <2>4
    <3>2. pair \in Known(View) \X Owners BY DEF DiagnosticInv, RecordsInv
    <3> QED BY <3>1, <3>2
  <2>5. r \in Gone(View) => r \in excused \cup server.refused \cup {pair[1] : pair \in server.received}
    BY DEF Gone, View
  <2> QED BY <2>2, <2>3, <2>4, <2>5
<1> QED BY <1>1, DiagnosticInvHolds, PTL

(* What a report's handle says is true (driverRestoreFeedback.ts): received     *)
(* means received, saved and to be sent means that its outbox still holds it.  *)
THEOREM HandlesSpeakTrue == DiagnosticSpec => []ReportStatusIsTrue
<1>1. DiagnosticInv => ReportStatusIsTrue
  <2> SUFFICES ASSUME DiagnosticInv, NEW r \in 1..Len(made)
      PROVE  /\ status[r] = "acknowledged" => <<r, OwnerOf(r)>> \in server.received
             /\ status[r] = "refused" => r \in server.refused
             /\ status[r] \in {"saving", "queued", "unsaved"} => r \in bindings[made[r]].memory
    BY DEF ReportStatusIsTrue
  <2>1. r \in Known(View) /\ View.made[r] = made[r] BY DEF Known, View
  <2>2. made[r] \in Bindings BY DEF DiagnosticInv, RecordsInv
  <2>3. Speaks(View, status, made[r], bindings[made[r]]) BY <2>2 DEF DiagnosticInv, RecordsInv
  <2>4. /\ status[r] = "acknowledged" => <<r, bindings[made[r]].owner>> \in View.received
        /\ status[r] = "refused" => r \in View.refused
        /\ status[r] \in {"saving", "queued", "unsaved"} => r \in bindings[made[r]].memory
    BY <2>1, <2>3 DEF Speaks
  <2> QED BY <2>4 DEF OwnerOf, View
<1> QED BY <1>1, DiagnosticInvHolds, PTL

(* A record reaches the server under the account it was made in, and every      *)
(* credential stays with the account it was issued to, though registrations    *)
(* and last flushes of a replaced account run beside the next account's.       *)
THEOREM AccountsStayApart == DiagnosticSpec => []ReachesItsOwnAccount
<1>1. DiagnosticInv => ReachesItsOwnAccount
  <2> SUFFICES ASSUME DiagnosticInv PROVE ReachesItsOwnAccount OBVIOUS
  <2>1. \A pair \in server.received : pair[2] = OwnerOf(pair[1]) BY DEF DiagnosticInv, RecordsInv
  <2>2. \A n \in Bindings : bindings[n].cache[1] \in {NoOne, bindings[n].owner}
    BY DEF DiagnosticInv, RecordsInv, Sound
  <2>3. \A o \in Owners : secure[o].token[1] \in {NoOne, o}
    BY DEF DiagnosticInv, SecureInv, SecureGood, Anyone
  <2> QED BY <2>1, <2>2, <2>3 DEF ReachesItsOwnAccount
<1> QED BY <1>1, DiagnosticInvHolds, PTL

(* What the server decided about is not sent again by the outbox that was told, *)
(* though its row is read back before it is removed (driverDiagnosticOutbox.ts *)
(* hydrate).                                                                  *)
THEOREM DecidedStaysOut == DiagnosticSpec => []SettledStaysOut
<1>1. DiagnosticInv => SettledStaysOut BY DEF DiagnosticInv, RecordsInv, Sound, SettledStaysOut
<1> QED BY <1>1, DiagnosticInvHolds, PTL
================================================================================
