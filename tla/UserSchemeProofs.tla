-------------------------- MODULE UserSchemeProofs --------------------------
(***************************************************************************)
(* Calls to a user scheme (UserScheme): answers and cancellations reach    *)
(* the call they are meant for, lent buffers stay mapped until the answer  *)
(* and keep an owner, and EINTR is only seen after a cancellation, for any *)
(* number of callers, tags, calls and kills.                               *)
(***************************************************************************)
EXTENDS UserScheme, TLAPS

Places == {"user", "check", "block", "post", "send", "sleep", "woken", "reblock", "exited"}
Entries == [op : {"Call", "Cancel"}, tag : Tags, req : Req]
HeldSet == [tag : Tags, req : Req]
CallSet == [tag : Tags \cup {None}, req : Req \cup {0}, timed : BOOLEAN, expired : BOOLEAN,
            timed_out : BOOLEAN, caller_responsible : BOOLEAN]

\* The variables the proof needs are well typed.
Typed ==
    /\ states \in [Tags -> Slot]
    /\ todo \in Seq(Entries)
    /\ pc \in [Callers -> Places]
    /\ killed \in [Callers -> Nat]
    /\ call \in [Callers -> CallSet]
    /\ mapped \subseteq Req
    /\ requests \in Nat /\ requests <= MaxReq
    /\ held \subseteq HeldSet

InCall(c) == pc[c] \notin {"user", "exited"}
Slots(c) == states[call[c].tag]

\* What a call has in its slot at each place.
CallOK(c) ==
    IF InCall(c)
    THEN /\ call[c].tag \in Tags
         /\ call[c].req = Slots(c).req
         /\ pc[c] \in {"check", "block", "post"} =>
                /\ Slots(c).state = "Placeholder" /\ call[c].req \in mapped
                /\ ~Slots(c).canceling
         /\ pc[c] = "send" => Slots(c).state = "Waiting" /\ ~Slots(c).canceling
         /\ pc[c] \in {"sleep", "woken", "reblock"} => Slots(c).state \in {"Waiting", "Responded"}
         /\ pc[c] \in {"send", "sleep", "woken", "reblock"} => Slots(c).context = c
         /\ ~Slots(c).canceling => call[c].caller_responsible
         /\ ~call[c].caller_responsible => call[c].timed_out
    ELSE call[c] = NoCall

\* Two calls have two slots.
Distinct == \A c, d \in Callers : c # d /\ InCall(c) /\ InCall(d) => call[c].tag # call[d].tag

\* A slot in use has a request of its own, whose buffer is mapped while it waits.
SlotOK(t) ==
    /\ states[t].state # "Vacant" => states[t].req \in 1 .. requests
    /\ states[t].state = "Waiting" => states[t].req \in mapped /\ states[t].context \in Callers
    /\ states[t].state = "Responded" /\ states[t].code = "EINTR" => states[t].canceling
OwnRequests == \A t, u \in Tags :
    t # u /\ states[t].state # "Vacant" /\ states[u].state # "Vacant" => states[t].req # states[u].req

\* A request that was sent and not answered has a slot that waits for it, and is in one
\* place: in the queue or with the handler.
Outstanding(e) == states[e.tag].state = "Waiting" /\ states[e.tag].req = e.req
Sent ==
    /\ \A i \in 1 .. Len(todo) : todo[i].op = "Call" => Outstanding(todo[i])
    /\ \A h \in held : Outstanding(h)
    /\ \A i, k \in 1 .. Len(todo) : i # k /\ todo[i].op = "Call" /\ todo[k].op = "Call" => todo[i].tag # todo[k].tag
    /\ \A i \in 1 .. Len(todo), h \in held : todo[i].op = "Call" => todo[i].tag # h.tag
    /\ \A c \in Callers : pc[c] = "send" =>
           /\ \A i \in 1 .. Len(todo) : todo[i].op = "Call" => todo[i].tag # call[c].tag
           /\ \A h \in held : h.tag # call[c].tag

\* A cancellation is behind the call it is meant for, and ahead of all others of the tag.
Cancels ==
    \A i \in 1 .. Len(todo) : todo[i].op = "Cancel" =>
        /\ \A h \in held : h.tag = todo[i].tag => h.req = todo[i].req
        /\ \A k \in 1 .. (i - 1) : todo[k].op = "Call" /\ todo[k].tag = todo[i].tag => todo[k].req = todo[i].req

IInv ==
    /\ Typed /\ (\A c \in Callers : CallOK(c)) /\ Distinct
    /\ (\A t \in Tags : SlotOK(t)) /\ OwnRequests /\ Sent /\ Cancels
    /\ TagMatchesCall /\ EintrNeedsCancel

-----------------------------------------------------------------------------
(* The records.                                                            *)

(* The fields of a slot, and the changes that are made to one. *)
LEMMA SlotFields ==
  ASSUME NEW r \in Slot
  PROVE  /\ r.state \in {"Vacant", "Placeholder", "Waiting", "Responded"}
         /\ r.req \in Req \cup {0} /\ r.context \in Callers \cup {None}
         /\ r.canceling \in BOOLEAN /\ r.callee_responsible \in BOOLEAN
         /\ r.code \in {"ok", "EINTR", "ECANCELED", "EIO"}
  BY Zenon DEF Slot

(* The slot that next_id makes. *)
LEMMA SlotBegins ==
  ASSUME NEW n \in Req
  PROVE  LET r == [Vacant EXCEPT !.state = "Placeholder", !.req = n]
         IN  /\ r \in Slot /\ r.state = "Placeholder" /\ r.req = n /\ ~r.canceling /\ ~r.callee_responsible
             /\ Vacant \in Slot /\ Vacant.state = "Vacant"
  BY Zenon DEF Slot, Vacant

(* The slot of a call that is being cancelled. *)
LEMMA SlotCancels ==
  ASSUME NEW r \in Slot, NEW b \in BOOLEAN
  PROVE  LET u == [r EXCEPT !.canceling = TRUE, !.callee_responsible = b]
         IN  /\ u \in Slot /\ u.state = r.state /\ u.context = r.context /\ u.req = r.req
             /\ u.canceling /\ u.callee_responsible = b /\ u.code = r.code
  BY Zenon DEF Slot

(* The fields of a call. *)
LEMMA CallFields ==
  ASSUME NEW r \in CallSet
  PROVE  /\ r.tag \in Tags \cup {None} /\ r.req \in Req \cup {0} /\ r.timed \in BOOLEAN
         /\ r.expired \in BOOLEAN /\ r.timed_out \in BOOLEAN /\ r.caller_responsible \in BOOLEAN
  BY Zenon DEF CallSet

(* No call, and the call that begins. *)
LEMMA CallBegins ==
  /\ NoCall \in CallSet /\ NoCall.req = 0 /\ ~NoCall.caller_responsible /\ ~NoCall.timed
  /\ \A t \in Tags, n \in Req, b \in BOOLEAN :
        [tag |-> t, req |-> n, timed |-> b, expired |-> FALSE, timed_out |-> FALSE,
         caller_responsible |-> TRUE] \in CallSet
  BY Zenon DEF CallSet, NoCall

(* The changes to a call when it is cancelled, and when its time is over. *)
LEMMA CallChanges ==
  ASSUME NEW r \in CallSet, NEW a \in BOOLEAN, NEW b \in BOOLEAN
  PROVE  /\ LET u == [[r EXCEPT !.caller_responsible = a] EXCEPT !.timed_out = b]
            IN  /\ u \in CallSet /\ u.tag = r.tag /\ u.req = r.req
                /\ u.caller_responsible = a /\ u.timed_out = b
         /\ LET u == [r EXCEPT !.expired = TRUE]
            IN  /\ u \in CallSet /\ u.tag = r.tag /\ u.req = r.req
                /\ u.caller_responsible = r.caller_responsible /\ u.timed_out = r.timed_out
  BY Zenon DEF CallSet

(* A step that returns nothing to anybody. *)
LEMMA NothingReturned ==
  ASSUME last' = Nothing
  PROVE  TagMatchesCall' /\ EintrNeedsCancel'
  BY Zenon DEF Nothing, TagMatchesCall, EintrNeedsCancel

-----------------------------------------------------------------------------
(* The invariant holds initially.                                          *)

(* Before the first call every slot is vacant and the queue empty. *)
LEMMA InitIInv ==
  ASSUME Init
  PROVE  IInv
<1> USE UserSchemeAssumption
<1>1. Typed
  <2>1. Vacant \in Slot
    BY Zenon DEF Vacant, Slot
  <2>2. call \in [Callers -> CallSet]
    BY CallBegins, Zenon DEF Init
  <2>3. todo \in Seq(Entries)
    BY DEF Init
  <2> QED
    BY <2>1, <2>2, <2>3 DEF Init, Typed, Places
<1>2. \A c \in Callers : CallOK(c)
  BY Zenon DEF Init, CallOK, InCall
<1>3. \A t \in Tags : SlotOK(t)
  BY Zenon DEF Init, SlotOK, Vacant
<1>4. Distinct /\ OwnRequests
  BY Zenon DEF Init, Distinct, OwnRequests, InCall, Vacant
<1>5. Sent
  BY DEF Init, Sent
<1>6. Cancels
  BY DEF Init, Cancels
<1>7. TagMatchesCall /\ EintrNeedsCancel
  BY Zenon DEF Init, TagMatchesCall, EintrNeedsCancel, Nothing
<1> QED
  BY <1>1, <1>2, <1>3, <1>4, <1>5, <1>6, <1>7, Zenon DEF IInv

-----------------------------------------------------------------------------
(* Steps that change at most the place of a caller.                        *)

(* What was sent stays outstanding while the queue, the requests in hand and their slots are
   left alone and no other caller begins to send. *)
LEMMA SentKept ==
  ASSUME Sent, todo' = todo, held' = held,
         \A i \in 1 .. Len(todo) : todo[i].op = "Call" =>
             /\ states'[todo[i].tag].state = states[todo[i].tag].state
             /\ states'[todo[i].tag].req = states[todo[i].tag].req,
         \A h \in held : states'[h.tag].state = states[h.tag].state /\ states'[h.tag].req = states[h.tag].req,
         \A d \in Callers : pc'[d] = "send" => pc[d] = "send" /\ call'[d].tag = call[d].tag
  PROVE  Sent'
  BY SMTT(30) DEF Sent, Outstanding

(* The cancellations stay where they are while the queue and the requests in hand do. *)
LEMMA CancelsKept ==
  ASSUME Cancels, todo' = todo, held' = held
  PROVE  Cancels'
  BY DEF Cancels

(* The handler's waiting, the unmount, kills and signals. *)
LEMMA QuietStep ==
  ASSUME IInv, UNCHANGED <<states, todo, pc, call, mapped, requests, held>>,
         killed' \in [Callers -> Nat], last' = Nothing
  PROVE  IInv'
<1> USE DEF IInv
<1>1. Typed'
  BY Zenon DEF Typed
<1>2. \A c \in Callers : CallOK(c)'
  BY DEF CallOK, InCall, Slots
<1>3. \A t \in Tags : SlotOK(t)'
  BY Zenon DEF SlotOK
<1>4. Distinct' /\ OwnRequests'
  BY Zenon DEF Distinct, OwnRequests, InCall
<1>5. Sent'
  BY SentKept, Zenon
<1>6. Cancels'
  BY CancelsKept, Zenon
<1> QED
  BY <1>1, <1>2, <1>3, <1>4, <1>5, <1>6, NothingReturned, Zenon DEF IInv

Moves == {<<"check", "block">>, <<"block", "post">>, <<"sleep", "woken">>, <<"woken", "reblock">>,
          <<"reblock", "sleep">>, <<"user", "exited">>}

(* A caller goes from one place to the next and leaves its slot alone. *)
LEMMA MoveStep ==
  ASSUME IInv, NEW c \in Callers, NEW p, <<pc[c], p>> \in Moves, pc' = [pc EXCEPT ![c] = p],
         UNCHANGED <<states, todo, killed, call, mapped, requests, held>>, last' = Nothing
  PROVE  IInv'
<1> USE DEF IInv
<1>p. pc'[c] = p /\ \A d \in Callers \ {c} : pc'[d] = pc[d]
  BY Zenon DEF Typed
<1>m. /\ p # "send" /\ p # "user"
      /\ p = "exited" <=> pc[c] = "user"
      /\ pc[c] # "exited"
      /\ p \in {"check", "block", "post"} <=> pc[c] \in {"check", "block", "post"} /\ p # "exited"
      /\ p \in {"sleep", "woken", "reblock"} <=> pc[c] \in {"sleep", "woken", "reblock"}
      /\ p \in Places
  BY Zenon DEF Moves, Places
<1>1. Typed'
  BY <1>m, Zenon DEF Typed
<1>2. \A d \in Callers : CallOK(d)'
  <2>1. CallOK(c)'
    BY <1>p, <1>m, Zenon DEF CallOK, InCall, Slots
  <2>2. \A d \in Callers \ {c} : CallOK(d)'
    BY <1>p DEF CallOK, InCall, Slots
  <2> QED
    BY <2>1, <2>2, Zenon
<1>3. \A t \in Tags : SlotOK(t)'
  BY Zenon DEF SlotOK
<1>4. Distinct' /\ OwnRequests'
  BY <1>p, <1>m DEF Distinct, OwnRequests, InCall
<1>5. Sent'
  <2>1. \A d \in Callers : pc'[d] = "send" => pc[d] = "send"
    BY <1>p, <1>m, Zenon
  <2> QED
    BY <2>1, SentKept, Zenon
<1>6. Cancels'
  BY CancelsKept, Zenon
<1> QED
  BY <1>1, <1>2, <1>3, <1>4, <1>5, <1>6, NothingReturned, Zenon DEF IInv

-----------------------------------------------------------------------------
(* The steps of a call.                                                    *)

(* What holds of a call holds while it and its slot do not change. *)
LEMMA CallKept ==
  ASSUME NEW d \in Callers, CallOK(d), pc'[d] = pc[d], call'[d] = call[d],
         InCall(d) => /\ states'[call[d].tag] = states[call[d].tag]
                      /\ call[d].req \in mapped => call[d].req \in mapped'
  PROVE  CallOK(d)'
  BY Zenon DEF CallOK, InCall, Slots

(* A call begins with a request number and a slot that nobody has. *)
LEMMA CallBeginStep ==
  ASSUME IInv, NEW c \in Callers, NEW t \in Tags, NEW timed \in Timed, CallBegin(c, t, timed)
  PROVE  IInv'
<1> USE UserSchemeAssumption DEF IInv
<1> DEFINE n == requests + 1
           k == [tag |-> t, req |-> n, timed |-> timed, expired |-> FALSE, timed_out |-> FALSE,
                 caller_responsible |-> TRUE]
           r == [Vacant EXCEPT !.state = "Placeholder", !.req = n]
<1>e. /\ pc[c] = "user" /\ requests < MaxReq /\ states[t].state = "Vacant"
      /\ requests' = n /\ states' = [states EXCEPT ![t] = r] /\ mapped' = mapped \cup {n}
      /\ call' = [call EXCEPT ![c] = k] /\ pc' = [pc EXCEPT ![c] = "check"] /\ last' = Nothing
      /\ UNCHANGED <<todo, killed, held>>
  BY Zenon DEF CallBegin, Goto, contextVars, handlerVars
<1>n. n \in Req /\ requests \in Nat
  BY <1>e DEF Typed, Req
<1>k. k \in CallSet /\ k.tag = t /\ k.req = n /\ k.caller_responsible
  BY <1>n, CallBegins, Zenon
<1>r. r \in Slot /\ r.state = "Placeholder" /\ r.req = n /\ ~r.canceling
  BY <1>n, SlotBegins, Zenon
<1> HIDE DEF r, k
<1>p. /\ pc'[c] = "check" /\ call'[c] = k /\ states'[t] = r
      /\ \A d \in Callers \ {c} : pc'[d] = pc[d] /\ call'[d] = call[d]
      /\ \A u \in Tags \ {t} : states'[u] = states[u]
  BY <1>e, Zenon DEF Typed
<1>s. \A d \in Callers : InCall(d) => call[d].tag \in Tags \ {t}
  BY <1>e, Zenon DEF CallOK, Slots, InCall, Places, Typed
<1>1. Typed'
  <2>1. states' \in [Tags -> Slot] /\ call' \in [Callers -> CallSet]
    BY <1>e, <1>k, <1>r, Zenon DEF Typed
  <2> QED
    BY <1>e, <1>n, <2>1 DEF Typed, Places, Req
<1>2. \A d \in Callers : CallOK(d)'
  <2>1. CallOK(c)'
    <3>1. InCall(c)' /\ Slots(c)' = r /\ k.req \in mapped'
      BY <1>e, <1>p, <1>k, Zenon DEF InCall, Slots
    <3> HIDE DEF IInv
    <3> QED
      BY <1>p, <1>k, <1>r, <3>1, Zenon DEF CallOK
  <2>2. \A d \in Callers \ {c} : CallOK(d)'
    <3> SUFFICES ASSUME NEW d \in Callers \ {c} PROVE CallOK(d)'
      BY Zenon
    <3>1. InCall(d) => /\ states'[call[d].tag] = states[call[d].tag]
                       /\ call[d].req \in mapped => call[d].req \in mapped'
      BY <1>e, <1>p, <1>s, Zenon
    <3> QED
      BY <1>p, <3>1, CallKept, Zenon
  <2> QED
    BY <2>1, <2>2, Zenon
<1>3. \A u \in Tags : SlotOK(u)'
  BY <1>e, <1>p, <1>r, <1>n DEF SlotOK
<1>4. Distinct'
  BY <1>p, <1>s, <1>k DEF Distinct, InCall
<1>5. OwnRequests'
  <2>1. \A u \in Tags : states[u].state # "Vacant" => states[u].req # n
    BY <1>n DEF SlotOK
  <2> QED
    BY <1>p, <1>r, <2>1 DEF OwnRequests
<1>6. Sent'
  BY <1>e, <1>p DEF Sent, Outstanding
<1>7. Cancels'
  BY <1>e, CancelsKept, Zenon
<1> QED
  BY <1>1, <1>2, <1>3, <1>4, <1>5, <1>6, <1>7, <1>e, NothingReturned, Zenon DEF IInv

(* A call that the unmount refuses was not sent to the handler. *)
LEMMA CallRefusedStep ==
  ASSUME IInv, NEW c \in Callers, CallRefused(c)
  PROVE  IInv'
<1> USE UserSchemeAssumption DEF IInv
<1>e. /\ pc[c] = "check" /\ mapped' = mapped \ {call[c].req}
      /\ last'.what = "ENODEV"
      /\ call' = [call EXCEPT ![c] = NoCall] /\ pc' = [pc EXCEPT ![c] = "user"]
      /\ UNCHANGED <<states, todo, killed, requests, held>>
  BY Zenon DEF CallRefused, Return, Goto, contextVars, handlerVars
<1>p. /\ pc'[c] = "user" /\ call'[c] = NoCall
      /\ \A d \in Callers \ {c} : pc'[d] = pc[d] /\ call'[d] = call[d]
  BY <1>e, Zenon DEF Typed
<1>s. call[c].tag \in Tags /\ call[c].req = states[call[c].tag].req /\ states[call[c].tag].state = "Placeholder"
  BY <1>e, Zenon DEF CallOK, InCall, Slots
<1>r. \A u \in Tags : states[u].state # "Vacant" /\ u # call[c].tag => states[u].req # call[c].req
  BY <1>s, Zenon DEF OwnRequests
<1>1. Typed'
  <2>1. call' \in [Callers -> CallSet]
    BY <1>e, CallBegins, Zenon DEF Typed
  <2> QED
    BY <1>e, <2>1, Zenon DEF Typed, Places
<1>2. \A d \in Callers : CallOK(d)'
  <2>1. CallOK(c)'
    BY <1>p, Zenon DEF CallOK, InCall
  <2>2. \A d \in Callers \ {c} : CallOK(d)'
    <3> SUFFICES ASSUME NEW d \in Callers \ {c} PROVE CallOK(d)'
      BY Zenon
    <3>1. InCall(d) => call[d].tag \in Tags /\ call[d].tag # call[c].tag
      BY <1>e, Zenon DEF CallOK, Distinct, InCall
    <3>2. InCall(d) /\ states[call[d].tag].state # "Vacant" => call[d].req # call[c].req
      BY <1>r, <3>1, Zenon DEF CallOK, Slots
    <3>3. pc[d] \in {"check", "block", "post"} => call[d].req \in mapped'
      BY <1>e, <3>2, Zenon DEF CallOK, InCall, Slots
    <3> QED
      BY <1>e, <1>p, <3>3, SMTT(30), ZenonT(30) DEF CallOK, InCall, Slots
  <2> QED
    BY <2>1, <2>2, Zenon
<1>3. \A u \in Tags : SlotOK(u)'
  BY <1>e, <1>r, <1>s, Zenon DEF SlotOK
<1>4. Distinct'
  BY <1>p DEF Distinct, InCall
<1>5. OwnRequests'
  BY <1>e, Zenon DEF OwnRequests
<1>6. Sent'
  BY <1>e, <1>p DEF Sent, Outstanding
<1>7. Cancels'
  BY <1>e, CancelsKept, Zenon
<1>8. TagMatchesCall' /\ EintrNeedsCancel'
  BY <1>e, Zenon DEF TagMatchesCall, EintrNeedsCancel
<1> QED
  BY <1>1, <1>2, <1>3, <1>4, <1>5, <1>6, <1>7, <1>8, Zenon DEF IInv

(* An entry at the end of the queue. *)
LEMMA Appended ==
  ASSUME NEW s \in Seq(Entries), NEW e \in Entries
  PROVE  /\ Append(s, e) \in Seq(Entries) /\ Len(Append(s, e)) = Len(s) + 1 /\ Len(s) \in Nat
         /\ \A i \in 1 .. Len(s) : Append(s, e)[i] = s[i]
         /\ Append(s, e)[Len(s) + 1] = e
  OBVIOUS

(* The fields of an entry of the queue. *)
LEMMA EntryFields ==
  ASSUME NEW t \in Tags, NEW n \in Req, NEW op \in {"Call", "Cancel"}
  PROVE  LET e == [op |-> op, tag |-> t, req |-> n]
         IN  e \in Entries /\ e.op = op /\ e.tag = t /\ e.req = n
  BY Zenon DEF Entries

(* The entries of the queue. *)
LEMMA EntryAt ==
  ASSUME Typed, NEW i \in 1 .. Len(todo)
  PROVE  todo[i] \in Entries /\ todo[i].tag \in Tags /\ todo[i].req \in Req /\ todo[i].op \in {"Call", "Cancel"}
<1>1. todo[i] \in Entries
  BY DEF Typed
<1> QED
  BY <1>1, Zenon DEF Entries

(* The request of a call in progress. *)
LEMMA RequestOf ==
  ASSUME IInv, NEW c \in Callers, InCall(c)
  PROVE  call[c].tag \in Tags /\ call[c].req \in Req /\ call[c].req = states[call[c].tag].req
         /\ states[call[c].tag] \in Slot /\ states[call[c].tag].state # "Vacant"
<1> USE DEF IInv
<1>1. call[c].tag \in Tags /\ call[c].req = states[call[c].tag].req
  BY Zenon DEF CallOK, Slots
<1>2. states[call[c].tag].state # "Vacant"
  BY Zenon DEF CallOK, Slots, InCall, Typed, Places
<1>3. states[call[c].tag] \in Slot
  BY <1>1, Zenon DEF Typed
<1>4. call[c].req \in Req
  BY <1>1, <1>2, UserSchemeAssumption DEF SlotOK, Typed, Req
<1> QED
  BY <1>1, <1>2, <1>3, <1>4, Zenon

(* The slot of a call that is posted waits for its request, whose buffer is mapped. *)
LEMMA CallPostStep ==
  ASSUME IInv, NEW c \in Callers, CallPost(c)
  PROVE  IInv'
<1> USE UserSchemeAssumption DEF IInv
<1> DEFINE t == call[c].tag
           r == [[states[t] EXCEPT !.state = "Waiting"] EXCEPT !.context = c]
<1>e. /\ pc[c] = "post" /\ pc' = [pc EXCEPT ![c] = "send"] /\ last' = Nothing
      /\ UNCHANGED <<todo, killed, call, mapped, requests, held>>
  BY Zenon DEF CallPost, Goto, contextVars, handlerVars
<1>s. /\ t \in Tags /\ call[c].req = states[t].req /\ states[t].state = "Placeholder"
      /\ call[c].req \in mapped /\ ~states[t].canceling /\ call[c].caller_responsible
  BY <1>e, Zenon DEF CallOK, InCall, Slots
<1>f. states' = [states EXCEPT ![t] = r]
  BY <1>s, Zenon DEF CallPost, Typed
<1>r. /\ r \in Slot /\ r.state = "Waiting" /\ r.context = c /\ r.req = states[t].req
      /\ r.canceling = states[t].canceling
  <2>1. states[t] \in Slot
    BY <1>s, Zenon DEF Typed
  <2> QED
    BY <2>1, Zenon DEF Slot
<1> HIDE DEF r
<1>p. /\ pc'[c] = "send" /\ states'[t] = r
      /\ \A d \in Callers \ {c} : pc'[d] = pc[d]
      /\ \A u \in Tags \ {t} : states'[u] = states[u]
  BY <1>e, <1>f, <1>s, Zenon DEF Typed
<1>1. Typed'
  <2>1. states' \in [Tags -> Slot]
    BY <1>f, <1>r, Zenon DEF Typed
  <2> QED
    BY <1>e, <2>1, Zenon DEF Typed, Places
<1>2. \A d \in Callers : CallOK(d)'
  <2>1. CallOK(c)'
    <3>1. call'[c] = call[c] /\ pc'[c] = "send" /\ states'[call'[c].tag] = r
      BY <1>e, <1>p, Zenon
    <3>2. r.req = call[c].req /\ ~r.canceling /\ call[c].caller_responsible
      BY <1>r, <1>s, Zenon
    <3> QED
      BY <1>r, <1>s, <3>1, <3>2, ZenonT(30) DEF CallOK, InCall, Slots
  <2>2. \A d \in Callers \ {c} : CallOK(d)'
    <3>1. \A d \in Callers \ {c} : InCall(d) => call[d].tag \in Tags \ {t}
      BY <1>e, Zenon DEF CallOK, Distinct, InCall
    <3> SUFFICES ASSUME NEW d \in Callers \ {c} PROVE CallOK(d)'
      BY Zenon
    <3>2. InCall(d) => /\ states'[call[d].tag] = states[call[d].tag]
                       /\ call[d].req \in mapped => call[d].req \in mapped'
      BY <1>e, <1>p, <3>1, Zenon
    <3> QED
      BY <1>e, <1>p, <3>2, CallKept, Zenon
  <2> QED
    BY <2>1, <2>2, Zenon
<1>3. \A u \in Tags : SlotOK(u)'
  BY <1>e, <1>p, <1>r, <1>s DEF SlotOK
<1>4. Distinct'
  BY <1>e, <1>p DEF Distinct, InCall
<1>5. OwnRequests'
  BY <1>p, <1>r, <1>s DEF OwnRequests
<1>6. Sent'
  <2>1. /\ \A i \in 1 .. Len(todo) : todo[i].op = "Call" => todo[i].tag \in Tags \ {t}
        /\ \A h \in held : h.tag \in Tags \ {t}
    <3>1. \A i \in 1 .. Len(todo) : todo[i].tag \in Tags
      BY EntryAt, Zenon
    <3>2. \A h \in held : h.tag \in Tags
      BY Zenon DEF Typed, HeldSet
    <3> QED
      BY <3>1, <3>2, <1>s, Zenon DEF Sent, Outstanding
  <2> QED
    BY <1>e, <1>p, <2>1, SMTT(30) DEF Sent, Outstanding
<1>7. Cancels'
  BY <1>e, CancelsKept, Zenon
<1> QED
  BY <1>1, <1>2, <1>3, <1>4, <1>5, <1>6, <1>7, <1>e, NothingReturned, Zenon DEF IInv

(* A call is sent once. *)
LEMMA CallSendStep ==
  ASSUME IInv, NEW c \in Callers, CallSend(c)
  PROVE  IInv'
<1> USE UserSchemeAssumption DEF IInv
<1> DEFINE t == call[c].tag
           e == [op |-> "Call", tag |-> t, req |-> call[c].req]
           n == Len(todo) + 1
<1>e. /\ pc[c] = "send" /\ pc' = [pc EXCEPT ![c] = "sleep"] /\ last' = Nothing
      /\ todo' = Append(todo, e)
      /\ UNCHANGED <<states, killed, call, mapped, requests, held>>
  BY Zenon DEF CallSend, Send, Goto, contextVars, handlerVars, kernelVars
<1>s. t \in Tags /\ call[c].req \in Req /\ call[c].req = states[t].req /\ states[t].state = "Waiting"
  BY <1>e, RequestOf, Zenon DEF CallOK, InCall, Slots
<1>f. e \in Entries /\ e.op = "Call" /\ e.tag = t /\ e.req = call[c].req
  BY <1>s, EntryFields, Zenon
<1> HIDE DEF e
<1>a. /\ todo' \in Seq(Entries) /\ Len(todo') = n /\ Len(todo) \in Nat /\ todo'[n] = e
      /\ \A i \in 1 .. Len(todo) : todo'[i] = todo[i]
  BY <1>e, <1>f, Appended DEF Typed
<1>p. pc'[c] = "sleep" /\ \A d \in Callers \ {c} : pc'[d] = pc[d]
  BY <1>e, Zenon DEF Typed
<1>i. 1 .. Len(todo') = (1 .. Len(todo)) \cup {n} /\ n \notin 1 .. Len(todo)
  BY <1>a
<1>1. Typed'
  BY <1>e, <1>a, Zenon DEF Typed, Places
<1>2. \A d \in Callers : CallOK(d)'
  <2>1. CallOK(c)'
    BY <1>e, <1>p, <1>s, Zenon DEF CallOK, InCall, Slots
  <2>2. \A d \in Callers \ {c} : CallOK(d)'
    BY <1>e, <1>p, ZenonT(30) DEF CallOK, InCall, Slots
  <2> QED
    BY <2>1, <2>2, Zenon
<1>3. \A u \in Tags : SlotOK(u)'
  BY <1>e, Zenon DEF SlotOK
<1>4. Distinct'
  BY <1>e, <1>p, Zenon DEF Distinct, InCall
<1>5. OwnRequests'
  BY <1>e, Zenon DEF OwnRequests
<1>6. Sent'
  <2> HIDE DEF n
  <2>1. /\ \A i \in 1 .. Len(todo) : todo[i].op = "Call" => todo[i].tag # t
        /\ \A h \in held : h.tag # t
    BY <1>e, Zenon DEF Sent
  <2>2. \A i \in 1 .. Len(todo') : (todo[i].op = "Call" => Outstanding(todo[i]))'
    BY <1>a, <1>i, <1>f, <1>s, <1>e, SMTT(30), ZenonT(30) DEF Sent, Outstanding
  <2>3. \A h \in held' : Outstanding(h)'
    BY <1>e, Zenon DEF Sent, Outstanding
  <2>4. \A i, k \in 1 .. Len(todo') : i # k /\ todo'[i].op = "Call" /\ todo'[k].op = "Call" => todo'[i].tag # todo'[k].tag
    BY <1>a, <1>i, <1>f, <2>1 DEF Sent
  <2>5. \A i \in 1 .. Len(todo'), h \in held' : todo'[i].op = "Call" => todo'[i].tag # h.tag
    BY <1>a, <1>i, <1>f, <1>e, <2>1 DEF Sent
  <2>6. \A d \in Callers : pc'[d] = "send" =>
           /\ \A i \in 1 .. Len(todo') : todo'[i].op = "Call" => todo'[i].tag # call'[d].tag
           /\ \A h \in held' : h.tag # call'[d].tag
    <3>1. \A d \in Callers : pc'[d] = "send" => pc[d] = "send" /\ call[d].tag # t
      BY <1>p, <1>e, Zenon DEF Distinct, InCall
    <3> QED
      BY <1>a, <1>i, <1>f, <1>e, <3>1 DEF Sent
  <2> QED
    BY <2>2, <2>3, <2>4, <2>5, <2>6, Zenon DEF Sent
<1>7. Cancels'
  <2>1. \A i \in 1 .. Len(todo') : todo'[i].op = "Cancel" => i \in 1 .. Len(todo)
    BY <1>a, <1>i, <1>f, Zenon
  <2>2. \A i \in 1 .. Len(todo) : \A k \in 1 .. (i - 1) : k \in 1 .. Len(todo)
    BY <1>a
  <2> QED
    BY <1>a, <1>e, <2>1, <2>2 DEF Cancels
<1> QED
  BY <1>1, <1>2, <1>3, <1>4, <1>5, <1>6, <1>7, <1>e, NothingReturned, Zenon DEF IInv

(* A call that returns with an answer has the answer to its own request. *)
LEMMA CallDoneStep ==
  ASSUME IInv, NEW c \in Callers, CallDone(c)
  PROVE  IInv'
<1> USE UserSchemeAssumption DEF IInv
<1> DEFINE t == call[c].tag
           what == IF states[t].code \in {"ECANCELED", "EINTR"} /\ call[c].timed /\ ~wake[c]
                   THEN "ETIMEDOUT" ELSE states[t].code
<1>e. /\ pc[c] = "woken" /\ states[t].state = "Responded"
      /\ states' = [states EXCEPT ![t] = Vacant]
      /\ mapped' \subseteq mapped /\ mapped \subseteq mapped' \cup {call[c].req}
      /\ last' = [what |-> what, req |-> call[c].req, other |-> states[t].req,
                  canceling |-> states[t].canceling, timed_out |-> call[c].timed_out]
      /\ call' = [call EXCEPT ![c] = NoCall] /\ pc' = [pc EXCEPT ![c] = "user"]
      /\ UNCHANGED <<todo, killed, requests, held>>
  BY Zenon DEF CallDone, Return, Mine, Goto, contextVars, handlerVars
<1>s. t \in Tags /\ call[c].req \in Req /\ call[c].req = states[t].req /\ states[t] \in Slot
  BY <1>e, RequestOf, Zenon DEF InCall
<1>p. /\ pc'[c] = "user" /\ call'[c] = NoCall /\ states'[t] = Vacant
      /\ \A d \in Callers \ {c} : pc'[d] = pc[d] /\ call'[d] = call[d]
      /\ \A u \in Tags \ {t} : states'[u] = states[u]
  BY <1>e, <1>s, Zenon DEF Typed
<1>r. \A u \in Tags : states[u].state # "Vacant" /\ u # t => states[u].req # call[c].req
  BY <1>s, <1>e, Zenon DEF OwnRequests
<1>d. \A d \in Callers \ {c} : InCall(d) => call[d].tag \in Tags \ {t} /\ call[d].req # call[c].req
  <2> SUFFICES ASSUME NEW d \in Callers \ {c}, InCall(d)
               PROVE  call[d].tag \in Tags \ {t} /\ call[d].req # call[c].req
    BY Zenon
  <2>1. call[d].tag # t
    BY <1>e, Zenon DEF Distinct, InCall
  <2> QED
    BY <1>r, <2>1, RequestOf, Zenon
<1>v. Vacant \in Slot /\ Vacant.state = "Vacant"
  BY Zenon DEF Vacant, Slot
<1>1. Typed'
  <2>1. call' \in [Callers -> CallSet] /\ states' \in [Tags -> Slot]
    BY <1>e, <1>v, CallBegins, Zenon DEF Typed
  <2> QED
    BY <1>e, <2>1, Zenon DEF Typed, Places
<1>2. \A d \in Callers : CallOK(d)'
  <2>1. CallOK(c)'
    BY <1>p, Zenon DEF CallOK, InCall
  <2>2. \A d \in Callers \ {c} : CallOK(d)'
    <3> SUFFICES ASSUME NEW d \in Callers \ {c} PROVE CallOK(d)'
      BY Zenon
    <3>1. InCall(d) => /\ states'[call[d].tag] = states[call[d].tag]
                       /\ call[d].req \in mapped => call[d].req \in mapped'
      BY <1>e, <1>p, <1>d, Zenon
    <3> QED
      BY <1>p, <3>1, CallKept, Zenon
  <2> QED
    BY <2>1, <2>2, Zenon
<1>3. \A u \in Tags : SlotOK(u)'
  <2>1. \A u \in Tags : u = t => SlotOK(u)'
    BY <1>p, <1>v, Zenon DEF SlotOK
  <2>2. \A u \in Tags \ {t} : SlotOK(u)'
    BY <1>e, <1>p, <1>r, SMTT(30), ZenonT(30) DEF SlotOK
  <2> QED
    BY <2>1, <2>2, Zenon
<1>4. Distinct'
  BY <1>p, SMTT(30) DEF Distinct, InCall
<1>5. OwnRequests'
  BY <1>p, <1>v, SMTT(30) DEF OwnRequests
<1>6. Sent'
  <2>1. \A i \in 1 .. Len(todo) : todo[i].op = "Call" => todo[i].tag \in Tags \ {t}
    BY <1>e, EntryAt, Zenon DEF Sent, Outstanding
  <2>2. \A h \in held : h.tag \in Tags \ {t}
    BY <1>e, Zenon DEF Sent, Outstanding, Typed, HeldSet
  <2> QED
    BY <1>e, <1>p, <2>1, <2>2, SentKept, Zenon
<1>7. Cancels'
  BY <1>e, CancelsKept, Zenon
<1>8. TagMatchesCall' /\ EintrNeedsCancel'
  <2>1. last'.req = call[c].req /\ last'.other = states[t].req /\ last'.what = what
        /\ last'.canceling = states[t].canceling
    BY <1>e, Zenon
  <2>2. what = "EINTR" => states[t].code = "EINTR"
    BY Zenon
  <2>3. what = "EINTR" => states[t].canceling
    BY <1>e, <1>s, <2>2, Zenon DEF SlotOK
  <2> HIDE DEF what
  <2>4. TagMatchesCall'
    BY <2>1, <1>s, Zenon DEF TagMatchesCall
  <2>5. EintrNeedsCancel'
    BY <2>1, <2>3, Zenon DEF EintrNeedsCancel
  <2> QED
    BY <2>4, <2>5, Zenon
<1> QED
  BY <1>1, <1>2, <1>3, <1>4, <1>5, <1>6, <1>7, <1>8, Zenon DEF IInv

(* What Handed makes of a slot. *)
LEMMA HandedSlot ==
  ASSUME IInv, NEW c \in Callers, InCall(c)
  PROVE  LET t == call[c].tag
             u == Handed(c)
         IN  /\ u \in Slot /\ u.state = states[t].state /\ u.context = states[t].context
             /\ u.req = states[t].req /\ u.canceling /\ u.code = states[t].code
             /\ u.callee_responsible = IF killed[c] > 0 THEN call[c].caller_responsible
                                       ELSE states[t].callee_responsible
<1> DEFINE t == call[c].tag
           b == IF killed[c] > 0 THEN call[c].caller_responsible ELSE states[t].callee_responsible
<1>1. states[t] \in Slot
  BY RequestOf, Zenon
<1>2. b \in BOOLEAN
  BY <1>1, SlotFields, CallFields, Zenon DEF IInv, Typed
<1>3. Handed(c) = [states[t] EXCEPT !.canceling = TRUE, !.callee_responsible = b]
  BY <1>1, Zenon DEF Handed, HandOver, Mine, Slot
<1> HIDE DEF b
<1>4. LET u == [states[t] EXCEPT !.canceling = TRUE, !.callee_responsible = b]
      IN  /\ u \in Slot /\ u.state = states[t].state /\ u.context = states[t].context /\ u.req = states[t].req
          /\ u.canceling /\ u.callee_responsible = b /\ u.code = states[t].code
  BY <1>1, <1>2, SlotCancels, Zenon
<1> QED
  BY <1>3, <1>4, Zenon DEF b

(* A killed caller leaves the kernel, and its slot waits on for the answer. *)
LEMMA CallKilledStep ==
  ASSUME IInv, NEW c \in Callers, CallKilled(c)
  PROVE  IInv'
<1> USE UserSchemeAssumption DEF IInv
<1> DEFINE t == call[c].tag
           r == Handed(c)
<1>e. /\ pc[c] = "woken" /\ states[t].state = "Waiting"
      /\ states' = [states EXCEPT ![t] = r]
      /\ last'.what = "EINTR" /\ last'.canceling = TRUE
      /\ call' = [call EXCEPT ![c] = NoCall] /\ pc' = [pc EXCEPT ![c] = "user"]
      /\ UNCHANGED <<todo, killed, mapped, requests, held>>
  BY Zenon DEF CallKilled, Return, Mine, Goto, contextVars, handlerVars
<1>s. t \in Tags /\ InCall(c)
  BY <1>e, RequestOf, Zenon DEF InCall
<1>r. /\ r \in Slot /\ r.state = states[t].state /\ r.context = states[t].context
      /\ r.req = states[t].req /\ r.code = states[t].code
  BY <1>s, HandedSlot, Zenon
<1> HIDE DEF r
<1>p. /\ pc'[c] = "user" /\ call'[c] = NoCall /\ states'[t] = r
      /\ \A d \in Callers \ {c} : pc'[d] = pc[d] /\ call'[d] = call[d]
      /\ \A u \in Tags \ {t} : states'[u] = states[u]
  BY <1>e, <1>s, Zenon DEF Typed
<1>d. \A d \in Callers \ {c} : InCall(d) => call[d].tag \in Tags \ {t}
  BY <1>s, RequestOf, Zenon DEF Distinct
<1>q. \A u \in Tags : states'[u].state = states[u].state /\ states'[u].req = states[u].req
  BY <1>p, <1>r, Zenon
<1>1. Typed'
  <2>1. call' \in [Callers -> CallSet] /\ states' \in [Tags -> Slot]
    BY <1>e, <1>r, CallBegins, Zenon DEF Typed
  <2> QED
    BY <1>e, <2>1, Zenon DEF Typed, Places
<1>2. \A d \in Callers : CallOK(d)'
  <2>1. CallOK(c)'
    BY <1>p, Zenon DEF CallOK, InCall
  <2>2. \A d \in Callers \ {c} : CallOK(d)'
    <3> SUFFICES ASSUME NEW d \in Callers \ {c} PROVE CallOK(d)'
      BY Zenon
    <3>1. InCall(d) => /\ states'[call[d].tag] = states[call[d].tag]
                       /\ call[d].req \in mapped => call[d].req \in mapped'
      BY <1>e, <1>p, <1>d, Zenon
    <3> QED
      BY <1>p, <3>1, CallKept, Zenon
  <2> QED
    BY <2>1, <2>2, Zenon
<1>3. \A u \in Tags : SlotOK(u)'
  BY <1>e, <1>p, <1>r, SMTT(30), ZenonT(30) DEF SlotOK
<1>4. Distinct'
  BY <1>p, SMTT(30) DEF Distinct, InCall
<1>5. OwnRequests'
  BY <1>q DEF OwnRequests
<1>6. Sent'
  <2>1. \A i \in 1 .. Len(todo) : todo[i].tag \in Tags
    BY EntryAt, Zenon
  <2>2. \A h \in held : h.tag \in Tags
    BY Zenon DEF Typed, HeldSet
  <2> QED
    BY <1>e, <1>p, <1>q, <2>1, <2>2, SentKept, Zenon
<1>7. Cancels'
  BY <1>e, CancelsKept, Zenon
<1>8. TagMatchesCall' /\ EintrNeedsCancel'
  BY <1>e, Zenon DEF TagMatchesCall, EintrNeedsCancel
<1> QED
  BY <1>1, <1>2, <1>3, <1>4, <1>5, <1>6, <1>7, <1>8, Zenon DEF IInv

(* A cancellation is sent while the slot still waits for the request it is meant for. *)
LEMMA CallCancelStep ==
  ASSUME IInv, NEW c \in Callers, CallCancel(c)
  PROVE  IInv'
<1> USE UserSchemeAssumption DEF IInv
<1> DEFINE t == call[c].tag
           r == Handed(c)
           a == call[c].caller_responsible /\ ~HandOver(c)
           b == call[c].timed /\ call[c].expired
           k == [[call[c] EXCEPT !.caller_responsible = a] EXCEPT !.timed_out = b]
           e == [op |-> "Cancel", tag |-> t, req |-> call[c].req]
           n == Len(todo) + 1
<1>e. /\ pc[c] = "woken" /\ states[t].state = "Waiting" /\ ~states[t].canceling
      /\ (killed[c] = 0 \/ b)
      /\ states' = [states EXCEPT ![t] = r] /\ call' = Kept(c)
      /\ pc' = [pc EXCEPT ![c] = "reblock"] /\ last' = Nothing
      /\ todo' = Append(todo, e)
      /\ UNCHANGED <<killed, mapped, requests, held>>
  BY Zenon DEF CallCancel, Send, Mine, Goto, contextVars, handlerVars
<1>s. /\ t \in Tags /\ InCall(c) /\ call[c].req \in Req /\ call[c].req = states[t].req
      /\ states[t].context = c /\ call[c].caller_responsible
  BY <1>e, RequestOf, Zenon DEF InCall, CallOK, Slots
<1>r. /\ r \in Slot /\ r.state = states[t].state /\ r.context = states[t].context
      /\ r.req = states[t].req /\ r.code = states[t].code /\ r.canceling
  BY <1>s, HandedSlot, Zenon
<1>c. call[c] \in CallSet /\ a \in BOOLEAN /\ b \in BOOLEAN /\ (~a => b)
  <2>1. call[c] \in CallSet /\ killed[c] \in Nat
    BY Zenon DEF Typed
  <2> QED
    BY <2>1, <1>e, <1>s, CallFields DEF HandOver
<1>h. call' = [call EXCEPT ![c] = k]
  BY <1>e, Zenon DEF Kept, Typed, CallSet
<1> HIDE DEF a, b
<1>k. k \in CallSet /\ k.tag = t /\ k.req = call[c].req /\ k.caller_responsible = a /\ k.timed_out = b
  BY <1>c, Zenon DEF CallSet
<1>f. e \in Entries /\ e.op = "Cancel" /\ e.tag = t /\ e.req = call[c].req
  BY <1>s, EntryFields, Zenon
<1> HIDE DEF e, r, k
<1>a. /\ todo' \in Seq(Entries) /\ Len(todo') = n /\ Len(todo) \in Nat /\ todo'[n] = e
      /\ \A i \in 1 .. Len(todo) : todo'[i] = todo[i]
  BY <1>e, <1>f, Appended DEF Typed
<1>i. 1 .. Len(todo') = (1 .. Len(todo)) \cup {n} /\ n \notin 1 .. Len(todo)
  BY <1>a
<1>p. /\ pc'[c] = "reblock" /\ call'[c] = k /\ states'[t] = r
      /\ \A d \in Callers \ {c} : pc'[d] = pc[d] /\ call'[d] = call[d]
      /\ \A u \in Tags \ {t} : states'[u] = states[u]
  BY <1>e, <1>h, <1>s, Zenon DEF Typed
<1>d. \A d \in Callers \ {c} : InCall(d) => call[d].tag \in Tags \ {t}
  BY <1>s, RequestOf, Zenon DEF Distinct
<1>q. \A u \in Tags : states'[u].state = states[u].state /\ states'[u].req = states[u].req
  BY <1>p, <1>r, Zenon
<1>1. Typed'
  <2>1. call' \in [Callers -> CallSet] /\ states' \in [Tags -> Slot]
    BY <1>e, <1>h, <1>r, <1>k, Zenon DEF Typed
  <2> QED
    BY <1>e, <1>a, <2>1, Zenon DEF Typed, Places
<1>2. \A d \in Callers : CallOK(d)'
  <2>1. CallOK(c)'
    <3>1. call'[c] = k /\ pc'[c] = "reblock" /\ states'[call'[c].tag] = r
      BY <1>p, <1>k, Zenon
    <3>2. k.tag \in Tags /\ r.req = k.req /\ r.canceling /\ r.state = "Waiting" /\ r.context = c
      BY <1>e, <1>k, <1>r, <1>s, Zenon
    <3>3. ~k.caller_responsible => k.timed_out
      BY <1>c, <1>k, Zenon
    <3> QED
      BY <3>1, <3>2, <3>3, Zenon DEF CallOK, InCall, Slots
  <2>2. \A d \in Callers \ {c} : CallOK(d)'
    <3> SUFFICES ASSUME NEW d \in Callers \ {c} PROVE CallOK(d)'
      BY Zenon
    <3>1. InCall(d) => /\ states'[call[d].tag] = states[call[d].tag]
                       /\ call[d].req \in mapped => call[d].req \in mapped'
      BY <1>e, <1>p, <1>d, Zenon
    <3> QED
      BY <1>p, <3>1, CallKept, Zenon
  <2> QED
    BY <2>1, <2>2, Zenon
<1>3. \A u \in Tags : SlotOK(u)'
  BY <1>e, <1>p, <1>r, SMTT(30), ZenonT(30) DEF SlotOK
<1>4. Distinct'
  BY <1>p, <1>d, <1>k, SMTT(30) DEF Distinct, InCall
<1>5. OwnRequests'
  BY <1>q DEF OwnRequests
<1>x. /\ \A i \in 1 .. Len(todo) : todo[i].tag \in Tags
      /\ \A h \in held : h.tag \in Tags
  <2>1. \A i \in 1 .. Len(todo) : todo[i].tag \in Tags
    BY EntryAt, Zenon
  <2>2. \A h \in held : h.tag \in Tags
    BY Zenon DEF Typed, HeldSet
  <2> QED
    BY <2>1, <2>2, Zenon
<1>y. \A i \in 1 .. Len(todo') : todo'[i].op = "Call" => i \in 1 .. Len(todo) /\ todo'[i] = todo[i]
  BY <1>a, <1>i, <1>f, Zenon
<1>6. Sent'
  <2>1. \A i \in 1 .. Len(todo') : (todo[i].op = "Call" => Outstanding(todo[i]))'
    BY <1>x, <1>y, <1>q, SMTT(30), ZenonT(30) DEF Sent, Outstanding
  <2>2. \A h \in held' : Outstanding(h)'
    BY <1>x, <1>e, <1>q, SMTT(30), ZenonT(30) DEF Sent, Outstanding
  <2>3. \A i, l \in 1 .. Len(todo') : i # l /\ todo'[i].op = "Call" /\ todo'[l].op = "Call" => todo'[i].tag # todo'[l].tag
    BY <1>y DEF Sent
  <2>4. \A i \in 1 .. Len(todo'), h \in held' : todo'[i].op = "Call" => todo'[i].tag # h.tag
    BY <1>y, <1>e, SMTT(30) DEF Sent
  <2>5. \A d \in Callers : pc'[d] = "send" =>
           /\ \A i \in 1 .. Len(todo') : todo'[i].op = "Call" => todo'[i].tag # call'[d].tag
           /\ \A h \in held' : h.tag # call'[d].tag
    <3>1. \A d \in Callers : pc'[d] = "send" => pc[d] = "send" /\ call'[d] = call[d]
      BY <1>p, Zenon
    <3> QED
      BY <1>y, <1>e, <3>1 DEF Sent
  <2> QED
    BY <2>1, <2>2, <2>3, <2>4, <2>5, Zenon DEF Sent
<1>7. Cancels'
  <2> SUFFICES ASSUME NEW i \in 1 .. Len(todo'), todo'[i].op = "Cancel"
               PROVE  /\ \A h \in held : h.tag = todo'[i].tag => h.req = todo'[i].req
                      /\ \A l \in 1 .. (i - 1) : todo'[l].op = "Call" /\ todo'[l].tag = todo'[i].tag => todo'[l].req = todo'[i].req
    BY <1>e, Zenon DEF Cancels
  <2>0. \A l \in 1 .. (i - 1) : l \in 1 .. Len(todo) /\ todo'[l] = todo[l]
    BY <1>a
  <2>1. CASE i = n
    <3>1. todo'[i].tag = t /\ todo'[i].req = states[t].req
      BY <2>1, <1>a, <1>f, <1>s, Zenon
    <3>2. \A h \in held : h.tag = t => h.req = states[t].req
      BY Zenon DEF Sent, Outstanding
    <3>3. \A l \in 1 .. Len(todo) : todo[l].op = "Call" /\ todo[l].tag = t => todo[l].req = states[t].req
      BY Zenon DEF Sent, Outstanding
    <3> QED
      BY <2>0, <3>1, <3>2, <3>3, Zenon
  <2>2. CASE i # n
    <3>1. i \in 1 .. Len(todo) /\ todo'[i] = todo[i]
      BY <2>2, <1>a
    <3> QED
      BY <2>0, <3>1 DEF Cancels
  <2> QED
    BY <2>1, <2>2, Zenon
<1> QED
  BY <1>1, <1>2, <1>3, <1>4, <1>5, <1>6, <1>7, <1>e, NothingReturned, Zenon DEF IInv

(* The time of a call passes. *)
LEMMA ExpireStep ==
  ASSUME IInv, NEW c \in Callers, Expire(c)
  PROVE  IInv'
<1> USE UserSchemeAssumption DEF IInv
<1> DEFINE k == [call[c] EXCEPT !.expired = TRUE]
<1>e. /\ call[c].timed /\ last' = Nothing
      /\ call' = [call EXCEPT ![c].expired = TRUE]
      /\ UNCHANGED <<states, todo, pc, killed, mapped, requests, held>>
  BY Zenon DEF Expire, contextVars, handlerVars, kernelVars
<1>h. call' = [call EXCEPT ![c] = k]
  BY <1>e, Zenon DEF Typed
<1>k. /\ k \in CallSet /\ k.tag = call[c].tag /\ k.req = call[c].req
      /\ k.caller_responsible = call[c].caller_responsible /\ k.timed_out = call[c].timed_out
  BY CallChanges, Zenon DEF Typed
<1> HIDE DEF k
<1>p. call'[c] = k /\ \A d \in Callers \ {c} : call'[d] = call[d]
  BY <1>h, Zenon DEF Typed
<1>i. InCall(c)
  BY <1>e, CallBegins, Zenon DEF CallOK
<1>1. Typed'
  <2>1. call' \in [Callers -> CallSet]
    BY <1>h, <1>k, Zenon DEF Typed
  <2> QED
    BY <1>e, <2>1, Zenon DEF Typed
<1>2. \A d \in Callers : CallOK(d)'
  <2>1. CallOK(c)'
    BY <1>e, <1>p, <1>k, <1>i DEF CallOK, InCall, Slots
  <2>2. \A d \in Callers \ {c} : CallOK(d)'
    BY <1>e, <1>p, SMTT(30) DEF CallOK, InCall, Slots
  <2> QED
    BY <2>1, <2>2, Zenon
<1>3. \A u \in Tags : SlotOK(u)'
  BY <1>e, Zenon DEF SlotOK
<1>4. Distinct'
  BY <1>e, <1>p, <1>k DEF Distinct, InCall
<1>5. OwnRequests'
  BY <1>e, Zenon DEF OwnRequests
<1>6. Sent'
  BY <1>e, <1>p, <1>k, SentKept, Zenon
<1>7. Cancels'
  BY <1>e, CancelsKept, Zenon
<1> QED
  BY <1>1, <1>2, <1>3, <1>4, <1>5, <1>6, <1>7, <1>e, NothingReturned, Zenon DEF IInv

-----------------------------------------------------------------------------
(* The steps of the handler.                                               *)

(* The queue without its first entry. *)
LEMMA Shortened ==
  ASSUME NEW s \in Seq(Entries), s # <<>>
  PROVE  /\ Tail(s) \in Seq(Entries) /\ Len(s) \in Nat /\ Len(s) > 0 /\ Len(Tail(s)) = Len(s) - 1
         /\ \A i \in 1 .. Len(Tail(s)) : Tail(s)[i] = s[i + 1] /\ i + 1 \in 1 .. Len(s)
         /\ Head(s) = s[1] /\ s[1] \in Entries
  OBVIOUS

(* The handler reads the calls and the cancellations in the order they were sent. *)
LEMMA HandlerReceiveStep ==
  ASSUME IInv, HandlerReceive
  PROVE  IInv'
<1> USE UserSchemeAssumption DEF IInv
<1> DEFINE e == Head(todo)
           x == [tag |-> e.tag, req |-> e.req]
<1>e. /\ todo # <<>> /\ todo' = Tail(todo)
      /\ held' = IF e.op = "Call" THEN held \cup {x} ELSE held
      /\ last' = IF e.op = "Cancel" /\ \E h \in held : h.tag = e.tag
                 THEN [Nothing EXCEPT !.what = "Cancel", !.req = e.req,
                                      !.other = (CHOOSE h \in held : h.tag = e.tag).req]
                 ELSE Nothing
      /\ UNCHANGED <<states, pc, killed, call, mapped, requests>>
  BY Zenon DEF HandlerReceive, contextVars, kernelVars
<1>t. /\ todo' \in Seq(Entries) /\ Len(todo) \in Nat /\ Len(todo) > 0 /\ Len(todo') = Len(todo) - 1
      /\ \A i \in 1 .. Len(todo') : todo'[i] = todo[i + 1] /\ i + 1 \in 1 .. Len(todo)
      /\ e = todo[1] /\ e \in Entries /\ 1 \in 1 .. Len(todo)
  BY <1>e, Shortened DEF Typed
<1>x. x \in HeldSet /\ x.tag = e.tag /\ x.req = e.req /\ e.op \in {"Call", "Cancel"}
  BY <1>t, Zenon DEF HeldSet, Entries
<1> HIDE DEF x
<1>1. Typed'
  BY <1>e, <1>t, <1>x, Zenon DEF Typed
<1>2. \A d \in Callers : CallOK(d)'
  BY <1>e, Zenon DEF CallOK, InCall, Slots
<1>3. \A u \in Tags : SlotOK(u)'
  BY <1>e, Zenon DEF SlotOK
<1>4. Distinct'
  BY <1>e, Zenon DEF Distinct, InCall
<1>5. OwnRequests'
  BY <1>e, Zenon DEF OwnRequests
<1>c. e.op = "Call" =>
         /\ Outstanding(e)
         /\ \A i \in 1 .. Len(todo') : todo'[i].op = "Call" => todo'[i].tag # e.tag
         /\ \A d \in Callers : pc[d] = "send" => e.tag # call[d].tag
  <2>1. e.op = "Call" => Outstanding(e)
    BY <1>t DEF Sent
  <2>2. e.op = "Call" => \A i \in 1 .. Len(todo') : todo'[i].op = "Call" => todo'[i].tag # e.tag
    BY <1>t DEF Sent
  <2>3. e.op = "Call" => \A d \in Callers : pc[d] = "send" => e.tag # call[d].tag
    BY <1>t DEF Sent
  <2> QED
    BY <2>1, <2>2, <2>3, Zenon
<1>h. \A h \in held' : h \in held \/ (h = x /\ e.op = "Call")
  BY <1>e, Zenon
<1> HIDE DEF e
<1>6. Sent'
  <2>1. \A i \in 1 .. Len(todo') : (todo[i].op = "Call" => Outstanding(todo[i]))'
    BY <1>e, <1>t DEF Sent, Outstanding
  <2>2. \A h \in held' : Outstanding(h)'
    BY <1>e, <1>h, <1>x, <1>c, Zenon DEF Sent, Outstanding
  <2>3. \A i, l \in 1 .. Len(todo') : i # l /\ todo'[i].op = "Call" /\ todo'[l].op = "Call" => todo'[i].tag # todo'[l].tag
    <3> SUFFICES ASSUME NEW i \in 1 .. Len(todo'), NEW l \in 1 .. Len(todo'), i # l,
                        todo'[i].op = "Call", todo'[l].op = "Call"
                 PROVE  todo'[i].tag # todo'[l].tag
      BY Zenon
    <3>1. todo'[i] = todo[i + 1] /\ todo'[l] = todo[l + 1] /\ i + 1 # l + 1
      BY <1>t
    <3>2. i + 1 \in 1 .. Len(todo) /\ l + 1 \in 1 .. Len(todo)
      BY <1>t, Zenon
    <3> QED
      BY <3>1, <3>2, Zenon DEF Sent
  <2>4. \A i \in 1 .. Len(todo'), h \in held' : todo'[i].op = "Call" => todo'[i].tag # h.tag
    <3> SUFFICES ASSUME NEW i \in 1 .. Len(todo'), NEW h \in held', todo'[i].op = "Call"
                 PROVE  todo'[i].tag # h.tag
      BY Zenon
    <3>1. todo'[i] = todo[i + 1] /\ i + 1 \in 1 .. Len(todo)
      BY <1>t, Zenon
    <3>2. CASE h \in held
      BY <3>1, <3>2, Zenon DEF Sent
    <3>3. CASE h = x /\ e.op = "Call"
      BY <1>c, <1>x, <3>3, Zenon
    <3> QED
      BY <1>h, <3>2, <3>3, Zenon
  <2>5. \A d \in Callers : pc'[d] = "send" =>
           /\ \A i \in 1 .. Len(todo') : todo'[i].op = "Call" => todo'[i].tag # call'[d].tag
           /\ \A h \in held' : h.tag # call'[d].tag
    BY <1>e, <1>t, <1>h, <1>x, <1>c DEF Sent
  <2> QED
    BY <2>1, <2>2, <2>3, <2>4, <2>5, Zenon DEF Sent
<1>7. Cancels'
  <2> SUFFICES ASSUME NEW i \in 1 .. Len(todo'), todo'[i].op = "Cancel"
               PROVE  /\ \A h \in held' : h.tag = todo'[i].tag => h.req = todo'[i].req
                      /\ \A l \in 1 .. (i - 1) : todo'[l].op = "Call" /\ todo'[l].tag = todo'[i].tag => todo'[l].req = todo'[i].req
    BY Zenon DEF Cancels
  <2>1. todo'[i] = todo[i + 1] /\ i + 1 \in 1 .. Len(todo) /\ todo[i + 1].op = "Cancel"
    BY <1>t, Zenon
  <2>2. \A h \in held : h.tag = todo'[i].tag => h.req = todo'[i].req
    BY <2>1, Zenon DEF Cancels
  <2>3. \A l \in 1 .. i : todo[l].op = "Call" /\ todo[l].tag = todo'[i].tag => todo[l].req = todo'[i].req
    <3>1. \A l \in 1 .. i : l \in 1 .. ((i + 1) - 1)
      OBVIOUS
    <3> QED
      BY <2>1, <3>1, Zenon DEF Cancels
  <2>4. \A l \in 1 .. (i - 1) : todo'[l] = todo[l + 1] /\ l + 1 \in 1 .. i
    BY <1>t
  <2>5. 1 \in 1 .. i
    BY <1>t
  <2>6. e.op = "Call" /\ e.tag = todo'[i].tag => e.req = todo'[i].req
    BY <2>3, <2>5, <1>t, Zenon
  <2> QED
    BY <2>2, <2>3, <2>4, <2>6, <1>h, <1>x, SMTT(30)
<1>8. TagMatchesCall' /\ EintrNeedsCancel'
  <2>1. CASE last' = Nothing
    BY <2>1, NothingReturned, Zenon
  <2>2. CASE last' # Nothing
    <3> DEFINE y == CHOOSE h \in held : h.tag = e.tag
    <3>1. e.op = "Cancel" /\ \E h \in held : h.tag = e.tag
      BY <1>e, <2>2, Zenon
    <3>2. y \in held /\ y.tag = e.tag
      BY <3>1, Zenon
    <3>3. last' = [Nothing EXCEPT !.what = "Cancel", !.req = e.req, !.other = y.req]
      BY <1>e, <3>1, Zenon
    <3> HIDE DEF y
    <3>4. y.req = e.req
      BY <3>1, <3>2, <1>t, Zenon DEF Cancels
    <3>5. last'.what = "Cancel" /\ last'.req = e.req /\ last'.other = y.req
      BY <3>3, Zenon DEF Nothing
    <3> QED
      BY <3>4, <3>5, Zenon DEF TagMatchesCall, EintrNeedsCancel
  <2> QED
    BY <2>1, <2>2, Zenon
<1> QED
  BY <1>1, <1>2, <1>3, <1>4, <1>5, <1>6, <1>7, <1>8, Zenon DEF IInv

(* An answer goes to the slot that waits for it, and unmaps no other buffer. *)
LEMMA HandlerAnswerStep ==
  ASSUME IInv, NEW h \in held, NEW code \in {"ok", "EINTR", "ECANCELED"}, NEW alive \in BOOLEAN,
         HandlerAnswer(h, code, alive)
  PROVE  IInv'
<1> USE UserSchemeAssumption DEF IInv
<1> DEFINE t == h.tag
           o == Code(states[t], code)
           r == [[[states[t] EXCEPT !.state = "Responded"] EXCEPT !.code = o] EXCEPT !.req = h.req]
<1>t. h \in HeldSet /\ t \in Tags /\ h.req \in Req /\ states[t] \in Slot
  <2>1. h \in HeldSet
    BY Zenon DEF Typed
  <2>2. t \in Tags /\ h.req \in Req
    BY <2>1, Zenon DEF HeldSet
  <2> QED
    BY <2>1, <2>2, Zenon DEF Typed
<1>e. /\ states[t].state = "Waiting" /\ held' = held \ {h} /\ last' = Nothing
      /\ mapped' \subseteq mapped /\ mapped \subseteq mapped' \cup {states[t].req}
      /\ UNCHANGED <<todo, pc, killed, call, requests>>
      /\ alive \/ \E c \in Callers : states[t].context = c /\ pc[c] = "exited"
  BY Zenon DEF HandlerAnswer, Respond, contextVars
<1>f. \/ states' = [states EXCEPT ![t] = r]
      \/ ~alive /\ states' = [states EXCEPT ![t] = Vacant]
  BY <1>t, ZenonT(30) DEF HandlerAnswer, Respond, Typed, Slot
<1>q. states[t].req = h.req
  BY Zenon DEF Sent, Outstanding
<1>o. o \in {"ok", "EINTR", "ECANCELED", "EIO"} /\ (o = "EINTR" => states[t].canceling)
  BY Zenon DEF Code
<1>r. /\ r \in Slot /\ r.state = "Responded" /\ r.context = states[t].context /\ r.req = h.req
      /\ r.canceling = states[t].canceling /\ r.code = o
  <2> HIDE DEF o
  <2> QED
    BY <1>t, <1>o, Zenon DEF Slot
<1>v. Vacant \in Slot /\ Vacant.state = "Vacant"
  BY Zenon DEF Vacant, Slot
<1> HIDE DEF r, o
<1>p. /\ \A u \in Tags \ {t} : states'[u] = states[u]
      /\ \/ states'[t] = r
         \/ states'[t] = Vacant /\ \A c \in Callers : InCall(c) => call[c].tag # t
  <2>1. ~alive => \A c \in Callers : InCall(c) => call[c].tag # t
    BY <1>e DEF CallOK, Slots, InCall, Typed, Places
  <2> QED
    BY <1>f, <1>t, <2>1, Zenon DEF Typed
<1>u. \A u \in Tags : states[u].state # "Vacant" /\ u # t => states[u].req # states[t].req
  BY <1>e, <1>t, Zenon DEF OwnRequests
<1>c. \A c \in Callers : InCall(c) /\ call[c].tag # t => call[c].req # states[t].req
  BY <1>u, RequestOf, Zenon
<1>d. \A c \in Callers : InCall(c) /\ call[c].tag = t => pc[c] \in {"send", "sleep", "woken", "reblock"} /\ pc[c] # "send"
  <2>1. \A c \in Callers : pc[c] = "send" => call[c].tag # t
    BY Zenon DEF Sent
  <2> QED
    BY <1>e, <2>1, Zenon DEF CallOK, Slots, InCall, Typed, Places
<1>1. Typed'
  <2>1. states' \in [Tags -> Slot]
    BY <1>f, <1>r, <1>v, Zenon DEF Typed
  <2> QED
    BY <1>e, <2>1, Zenon DEF Typed
<1>2. \A d \in Callers : CallOK(d)'
  <2> SUFFICES ASSUME NEW d \in Callers PROVE CallOK(d)'
    BY Zenon
  <2>1. CASE ~InCall(d)
    BY <2>1, <1>e, Zenon DEF CallOK, InCall
  <2>2. CASE InCall(d) /\ call[d].tag # t
    <3>1. call[d].tag \in Tags /\ states'[call[d].tag] = states[call[d].tag]
      BY <2>2, <1>p, RequestOf, Zenon
    <3>2. call[d].req \in mapped => call[d].req \in mapped'
      BY <2>2, <1>c, <1>e, Zenon
    <3> QED
      BY <2>2, <3>1, <3>2, <1>e, CallKept, Zenon
  <2>3. CASE InCall(d) /\ call[d].tag = t
    <3>1. states'[t] = r
      BY <2>3, <1>p, Zenon
    <3>2. pc[d] \in {"sleep", "woken", "reblock"}
      BY <2>3, <1>d, Zenon
    <3> QED
      <4>1. call'[d] = call[d] /\ pc'[d] = pc[d] /\ states'[call'[d].tag] = r
        BY <2>3, <3>1, <1>e, Zenon
      <4>2. r.req = states[t].req /\ r.state = "Responded" /\ r.context = states[t].context
            /\ r.canceling = states[t].canceling
        BY <1>r, <1>q, Zenon
      <4>3. CallOK(d)
        BY Zenon
      <4>4. Slots(d)' = r /\ Slots(d) = states[t] /\ InCall(d)'
        BY <2>3, <4>1, Zenon DEF Slots, InCall
      <4>5. pc'[d] \notin {"check", "block", "post", "send"}
        BY <3>2, <4>1, Zenon
      <4>6. /\ call[d].tag \in Tags /\ call[d].req = r.req /\ r.context = d
            /\ ~r.canceling => call[d].caller_responsible
            /\ ~call[d].caller_responsible => call[d].timed_out
        BY <2>3, <3>2, <4>2, <4>3, <4>4, Zenon DEF CallOK
      <4> HIDE DEF IInv
      <4> QED
        BY <4>1, <4>2, <4>4, <4>5, <4>6, Zenon DEF CallOK
  <2> QED
    BY <2>1, <2>2, <2>3, Zenon
<1>3. \A u \in Tags : SlotOK(u)'
  <2>1. SlotOK(t)'
    <3>1. states[t].req \in 1 .. requests
      BY <1>e, <1>t, Zenon DEF SlotOK
    <3> QED
      BY <3>1, <1>e, <1>p, <1>r, <1>v, <1>q, <1>o, Zenon DEF SlotOK
  <2>2. \A u \in Tags \ {t} : SlotOK(u)'
    BY <1>e, <1>p, <1>u DEF SlotOK
  <2> QED
    BY <2>1, <2>2, Zenon
<1>4. Distinct'
  BY <1>e, Zenon DEF Distinct, InCall
<1>5. OwnRequests'
  BY <1>p, <1>u, <1>r, <1>v, <1>q, SMTT(30) DEF OwnRequests
<1>6. Sent'
  <2>1. \A i \in 1 .. Len(todo) : todo[i].op = "Call" => todo[i].tag \in Tags \ {t}
    BY EntryAt, Zenon DEF Sent
  <2>2. \A x \in held' : x \in held /\ x.tag \in Tags \ {t}
    <3> SUFFICES ASSUME NEW x \in held' PROVE x \in held /\ x.tag \in Tags \ {t}
      BY Zenon
    <3>1. x \in held /\ x # h /\ x \in HeldSet
      BY <1>e, Zenon DEF Typed
    <3>2. x.req = states[x.tag].req
      BY <3>1, Zenon DEF Sent, Outstanding
    <3>3. x.tag = h.tag => x = h
      BY <3>1, <3>2, <1>q, <1>t DEF HeldSet
    <3> QED
      BY <3>1, <3>3, Zenon DEF HeldSet
  <2>3. \A i \in 1 .. Len(todo') : (todo[i].op = "Call" => Outstanding(todo[i]))'
    BY <1>e, <1>p, <2>1, SMTT(30) DEF Sent, Outstanding
  <2>4. \A x \in held' : Outstanding(x)'
    BY <1>e, <1>p, <2>2 DEF Sent, Outstanding
  <2> QED
    BY <1>e, <2>2, <2>3, <2>4 DEF Sent
<1>7. Cancels'
  BY <1>e DEF Cancels
<1> QED
  BY <1>1, <1>2, <1>3, <1>4, <1>5, <1>6, <1>7, <1>e, NothingReturned, Zenon DEF IInv

-----------------------------------------------------------------------------
(* Every step preserves the invariant.                                     *)

(* A step of a call. *)
LEMMA CallStepStep ==
  ASSUME IInv, NEW c \in Callers, CallStep(c)
  PROVE  IInv'
<1>1. CASE CallRefused(c) BY <1>1, CallRefusedStep, Zenon
<1>2. CASE CallAccepted(c)
  <2>1. /\ <<pc[c], "block">> \in Moves /\ pc' = [pc EXCEPT ![c] = "block"] /\ last' = Nothing
        /\ UNCHANGED <<states, todo, killed, call, mapped, requests, held>>
    BY <1>2, Zenon DEF CallAccepted, Goto, Moves, contextVars, handlerVars, kernelVars
  <2> QED
    BY <2>1, MoveStep, Zenon
<1>3. CASE CallBlock(c)
  <2>1. /\ <<pc[c], "post">> \in Moves /\ pc' = [pc EXCEPT ![c] = "post"] /\ last' = Nothing
        /\ UNCHANGED <<states, todo, killed, call, mapped, requests, held>>
    BY <1>3, Zenon DEF CallBlock, Goto, Moves, handlerVars, kernelVars
  <2> QED
    BY <2>1, MoveStep, Zenon
<1>4. CASE CallPost(c) BY <1>4, CallPostStep, Zenon
<1>5. CASE CallSend(c) BY <1>5, CallSendStep, Zenon
<1>6. CASE CallResume(c)
  <2>1. /\ <<pc[c], "woken">> \in Moves /\ pc' = [pc EXCEPT ![c] = "woken"] /\ last' = Nothing
        /\ UNCHANGED <<states, todo, killed, call, mapped, requests, held>>
    BY <1>6, Zenon DEF CallResume, Goto, Moves, handlerVars, kernelVars
  <2> QED
    BY <2>1, MoveStep, Zenon
<1>7. CASE CallDone(c) BY <1>7, CallDoneStep, Zenon
<1>8. CASE CallKilled(c) BY <1>8, CallKilledStep, Zenon
<1>9. CASE CallCancel(c) BY <1>9, CallCancelStep, Zenon
<1>10. CASE CallCanceling(c)
  <2>1. /\ <<pc[c], "reblock">> \in Moves /\ pc' = [pc EXCEPT ![c] = "reblock"] /\ last' = Nothing
        /\ UNCHANGED <<states, todo, killed, call, mapped, requests, held>>
    BY <1>10, Zenon DEF CallCanceling, Goto, Moves, contextVars, handlerVars
  <2> QED
    BY <2>1, MoveStep, Zenon
<1>11. CASE CallReblock(c)
  <2>1. /\ <<pc[c], "sleep">> \in Moves /\ pc' = [pc EXCEPT ![c] = "sleep"] /\ last' = Nothing
        /\ UNCHANGED <<states, todo, killed, call, mapped, requests, held>>
    BY <1>11, Zenon DEF CallReblock, Goto, Moves, contextVars, handlerVars
  <2> QED
    BY <2>1, MoveStep, Zenon
<1> QED
  BY <1>1, <1>2, <1>3, <1>4, <1>5, <1>6, <1>7, <1>8, <1>9, <1>10, <1>11, Zenon DEF CallStep

(* What leaves the calls, the queue and the slots as they are. *)
Quiet == UNCHANGED <<states, todo, pc, call, mapped, requests, held>> /\ last' = Nothing

(* Steps of the handler's reads, of the unmount and of signals are quiet. *)
LEMMA QuietSteps ==
  /\ HandlerRead \/ HandlerWait \/ HandlerEof \/ HandlerResume \/ UnmountStore \/ UnmountNotify
       => Quiet /\ killed' = killed
  /\ \A c \in Callers : Interrupt(c) => Quiet /\ killed' = killed
  /\ \A c \in Callers : Typed /\ ForceKill(c) => Quiet /\ killed' \in [Callers -> Nat]
<1>1. HandlerRead \/ HandlerWait \/ HandlerEof \/ HandlerResume => Quiet /\ killed' = killed
  BY Zenon DEF HandlerRead, HandlerWait, HandlerEof, HandlerResume, Quiet, kernelVars, contextVars
<1>2. UnmountStore \/ UnmountNotify => Quiet /\ killed' = killed
  BY Zenon DEF UnmountStore, UnmountNotify, Quiet, kernelVars, contextVars, handlerVars
<1>3. \A c \in Callers : Interrupt(c) => Quiet /\ killed' = killed
  BY Zenon DEF Interrupt, Quiet, kernelVars, contextVars, handlerVars
<1>4. \A c \in Callers : Typed /\ ForceKill(c) => Quiet /\ killed' \in [Callers -> Nat]
  BY DEF ForceKill, Typed, Quiet, kernelVars, handlerVars
<1> QED
  BY <1>1, <1>2, <1>3, <1>4, Zenon

(* Every step of callers, handler and environment keeps the invariant. *)
LEMMA NextStep ==
  ASSUME IInv, [Next]_vars
  PROVE  IInv'
<1>k. Typed /\ killed \in [Callers -> Nat]
  BY Zenon DEF IInv, Typed
<1>q. ASSUME Quiet, killed' \in [Callers -> Nat] PROVE IInv'
  BY <1>q, QuietStep, Zenon DEF Quiet
<1>1. ASSUME NEW c \in Callers, CallStep(c) PROVE IInv'
  BY <1>1, CallStepStep, Zenon
<1>2. ASSUME NEW c \in Callers, Expire(c) PROVE IInv'
  BY <1>2, ExpireStep, Zenon
<1>3. ASSUME NEW c \in Callers, ForceKill(c) PROVE IInv'
  BY <1>3, <1>k, <1>q, QuietSteps, Zenon
<1>4. ASSUME NEW c \in Callers, Exit(c) PROVE IInv'
  <2>1. /\ <<pc[c], "exited">> \in Moves /\ pc' = [pc EXCEPT ![c] = "exited"] /\ last' = Nothing
        /\ UNCHANGED <<states, todo, killed, call, mapped, requests, held>>
    BY <1>4, Zenon DEF Exit, Goto, Moves, contextVars, handlerVars, kernelVars
  <2> QED
    BY <2>1, MoveStep, Zenon
<1>5. ASSUME NEW c \in Callers, Interrupt(c) PROVE IInv'
  BY <1>5, <1>k, <1>q, QuietSteps, Zenon
<1>6. ASSUME NEW c \in Callers, NEW t \in Tags, NEW timed \in Timed, CallBegin(c, t, timed) PROVE IInv'
  BY <1>6, CallBeginStep, Zenon
<1>7. CASE HandlerRead \/ HandlerWait \/ HandlerEof \/ HandlerResume \/ UnmountStore \/ UnmountNotify
  BY <1>7, <1>k, <1>q, QuietSteps, Zenon
<1>8. CASE HandlerReceive
  BY <1>8, HandlerReceiveStep, Zenon
<1>9. CASE Answers
  BY <1>9, HandlerAnswerStep, Zenon DEF Answers
<1>10. CASE UNCHANGED vars
  <2> USE DEF IInv
  <2>u. UNCHANGED <<states, todo, pc, killed, call, mapped, requests, held, last>>
    BY <1>10, Zenon DEF vars
  <2>1. Typed' /\ Distinct' /\ OwnRequests'
    BY <2>u, Zenon DEF Typed, Distinct, OwnRequests, InCall
  <2>2. \A c \in Callers : CallOK(c)'
    BY <2>u, CallKept, Zenon
  <2>3. \A t \in Tags : SlotOK(t)'
    BY <2>u, Zenon DEF SlotOK
  <2>4. Sent' /\ Cancels'
    BY <2>u, SentKept, CancelsKept, Zenon
  <2>5. TagMatchesCall' /\ EintrNeedsCancel'
    BY <2>u, Zenon DEF TagMatchesCall, EintrNeedsCancel
  <2> QED
    BY <2>1, <2>2, <2>3, <2>4, <2>5, Zenon
<1> QED
  BY <1>1, <1>2, <1>3, <1>4, <1>5, <1>6, <1>7, <1>8, <1>9, <1>10, Zenon DEF Next, HandlerStep

(* The invariant holds in every state of every behaviour. *)
LEMMA Invariance == Spec => []IInv
<1>1. Init => IInv
  BY InitIInv, Zenon
<1>2. IInv /\ [Next]_vars => IInv'
  BY NextStep, Zenon
<1> QED
  BY <1>1, <1>2, PTL DEF Spec

(* Tags are used again; yet the answer that call_extended_inner returns is the answer to *)
(* that call, and a cancellation that the handler reads is for the request it holds.      *)
THEOREM AnswersMatchCalls == Spec => []TagMatchesCall
<1>1. IInv => TagMatchesCall
  BY Zenon DEF IInv
<1> QED
  BY <1>1, Invariance, PTL

(* EINTR is returned only by a call whose cancellation was requested, as the comment in *)
(* respond() demands for the sake of the signal trampoline.                             *)
THEOREM EintrOnlyCancelled == Spec => []EintrNeedsCancel
<1>1. IInv => EintrNeedsCancel
  BY Zenon DEF IInv
<1> QED
  BY <1>1, Invariance, PTL

(* "The scheme must be able to access the borrowed memory until it has responded to the *)
(* request": the buffer of every request that the handler holds is mapped.               *)
THEOREM BuffersBorrowed == Spec => []BorrowedUntilAnswered
<1>1. IInv => BorrowedUntilAnswered
  <2> SUFFICES ASSUME IInv, NEW h \in held PROVE h.req \in mapped
    BY Zenon DEF BorrowedUntilAnswered
  <2>1. h.tag \in Tags
    BY Zenon DEF IInv, Typed, HeldSet
  <2>2. states[h.tag].state = "Waiting" /\ states[h.tag].req = h.req
    BY Zenon DEF IInv, Sent, Outstanding
  <2> QED
    BY <2>1, <2>2, Zenon DEF IInv, SlotOK
<1> QED
  BY <1>1, Invariance, PTL

-----------------------------------------------------------------------------
(* Who unmaps a buffer.                                                     *)

KeepsOwner == \A r \in mapped' :
    \/ HasOwner(r)'
    \/ r \in mapped /\ ~HasOwner(r)
    \/ \E c \in Callers : call[c].req = r /\ call[c].timed_out /\ killed[c] > 0

(* A step that changes no slot's owner and no caller's duty leaves the owners alone. *)
LEMMA OwnersKept ==
  ASSUME mapped' \subseteq mapped, call' = call, NEW t \in Tags,
         \A u \in Tags \ {t} : states'[u] = states[u],
         states[t].state = "Waiting" /\ states[t].callee_responsible =>
            \/ states'[t].state = "Waiting" /\ states'[t].callee_responsible /\ states'[t].req = states[t].req
            \/ states[t].req \notin mapped'
  PROVE  KeepsOwner
  BY Zenon DEF KeepsOwner, HasOwner

(* The owners of a request that is not the call's own, when one call changes. *)
LEMMA OwnersElsewhere ==
  ASSUME NEW c \in Callers, NEW t \in Tags, NEW r \in Req,
         \A d \in Callers \ {c} : call'[d] = call[d],
         \A u \in Tags \ {t} : states'[u] = states[u],
         HasOwner(r),
         call[c].req # r \/ ~call[c].caller_responsible,
         states[t].req # r \/ states[t].state # "Waiting" \/ ~states[t].callee_responsible
  PROVE  HasOwner(r)'
  BY Zenon DEF HasOwner

(* Every step keeps an owner for every buffer. *)
LEMMA OwnerStep ==
  ASSUME IInv, [Next]_vars
  PROVE  KeepsOwner
<1> USE UserSchemeAssumption DEF IInv
<1>q. ASSUME UNCHANGED <<states, call, mapped>> PROVE KeepsOwner
  BY <1>q, Zenon DEF KeepsOwner, HasOwner
<1>t. mapped \subseteq Req /\ \A c \in Callers : killed[c] \in Nat
  BY Zenon DEF Typed
<1>1. ASSUME NEW c \in Callers, NEW t \in Tags, NEW timed \in Timed, CallBegin(c, t, timed) PROVE KeepsOwner
  <2> DEFINE n == requests + 1
             k == [tag |-> t, req |-> n, timed |-> timed, expired |-> FALSE, timed_out |-> FALSE,
                   caller_responsible |-> TRUE]
  <2>1. /\ pc[c] = "user" /\ states[t].state = "Vacant" /\ mapped' = mapped \cup {n}
        /\ call'[c] = k /\ \A d \in Callers \ {c} : call'[d] = call[d]
        /\ \A u \in Tags \ {t} : states'[u] = states[u]
    BY <1>1, Zenon DEF CallBegin, Typed
  <2>2. ~call[c].caller_responsible
    BY <2>1, CallBegins, Zenon DEF CallOK, InCall
  <2>3. \A r : r = n => HasOwner(r)'
    <3>1. k.req = n /\ k.caller_responsible
      BY Zenon
    <3> HIDE DEF k, n
    <3> QED
      BY <2>1, <3>1, Zenon DEF HasOwner
  <2>4. \A r \in mapped : HasOwner(r) => HasOwner(r)'
    BY <1>t, <2>1, <2>2, OwnersElsewhere, Zenon
  <2> HIDE DEF n, k
  <2> QED
    BY <2>1, <2>3, <2>4, Zenon DEF KeepsOwner
<1>2. ASSUME NEW c \in Callers, CallRefused(c) PROVE KeepsOwner
  <2>1. /\ InCall(c) /\ pc[c] = "check" /\ mapped' = mapped \ {call[c].req} /\ states' = states
        /\ \A d \in Callers \ {c} : call'[d] = call[d]
    BY <1>2, Zenon DEF CallRefused, Return, InCall, Typed
  <2>2. \A r \in mapped' : HasOwner(r) => HasOwner(r)'
    BY <2>1, Zenon DEF HasOwner
  <2> QED
    BY <2>1, <2>2, Zenon DEF KeepsOwner
<1>3. ASSUME NEW c \in Callers, CallPost(c) PROVE KeepsOwner
  <2>1. pc[c] = "post" /\ InCall(c) /\ mapped' = mapped /\ call' = call
    BY <1>3, Zenon DEF CallPost, InCall
  <2>2. call[c].tag \in Tags /\ states[call[c].tag].state = "Placeholder"
    BY <2>1, Zenon DEF CallOK, Slots
  <2>3. \A u \in Tags \ {call[c].tag} : states'[u] = states[u]
    BY <1>3, Zenon DEF CallPost, Typed
  <2> QED
    BY <2>1, <2>2, <2>3, OwnersKept, Zenon
<1>4. ASSUME NEW c \in Callers, CallDone(c) PROVE KeepsOwner
  <2> DEFINE t == call[c].tag
  <2>1. /\ pc[c] = "woken" /\ InCall(c) /\ states[t].state = "Responded"
        /\ mapped' = IF call[c].caller_responsible THEN mapped \ {call[c].req} ELSE mapped
        /\ \A d \in Callers \ {c} : call'[d] = call[d]
        /\ \A u \in Tags \ {t} : states'[u] = states[u]
    BY <1>4, Zenon DEF CallDone, Mine, Return, InCall, Typed
  <2>2. t \in Tags
    BY <2>1, RequestOf, Zenon
  <2>3. \A r \in mapped' : r \in mapped /\ (call[c].req # r \/ ~call[c].caller_responsible)
    BY <2>1, Zenon
  <2>4. \A r \in mapped' : HasOwner(r) => HasOwner(r)'
    BY <1>t, <2>1, <2>2, <2>3, OwnersElsewhere, Zenon
  <2> QED
    BY <2>3, <2>4, Zenon DEF KeepsOwner
<1>5. ASSUME NEW c \in Callers, CallKilled(c) PROVE KeepsOwner
  <2> DEFINE t == call[c].tag
  <2>1. /\ pc[c] = "woken" /\ InCall(c) /\ killed[c] > 0 /\ mapped' = mapped /\ states[t].state = "Waiting"
        /\ \A d \in Callers \ {c} : call'[d] = call[d]
        /\ states' = [states EXCEPT ![t] = Handed(c)]
    BY <1>5, Zenon DEF CallKilled, Mine, Return, InCall, Typed
  <2>2. t \in Tags /\ call[c].req = states[t].req
    BY <2>1, RequestOf, Zenon
  <2>3. states'[t] = Handed(c) /\ \A u \in Tags \ {t} : states'[u] = states[u]
    BY <2>1, <2>2, Zenon DEF Typed
  <2>4. \A r \in mapped : r # call[c].req /\ HasOwner(r) => HasOwner(r)'
    BY <1>t, <2>1, <2>2, <2>3, OwnersElsewhere, Zenon
  <2>5. CASE call[c].caller_responsible
    <3>1. Handed(c).state = "Waiting" /\ Handed(c).req = call[c].req /\ Handed(c).callee_responsible
      BY <2>1, <2>2, <2>5, HandedSlot, Zenon
    <3>2. \A r : r = call[c].req => HasOwner(r)'
      BY <2>2, <2>3, <3>1, Zenon DEF HasOwner
    <3> QED
      BY <2>1, <2>4, <3>2, Zenon DEF KeepsOwner
  <2>6. CASE ~call[c].caller_responsible
    <3>1. call[c].timed_out
      BY <2>1, <2>6, Zenon DEF CallOK
    <3> QED
      BY <2>1, <2>4, <3>1, Zenon DEF KeepsOwner
  <2> QED
    BY <2>5, <2>6, Zenon
<1>6. ASSUME NEW c \in Callers, CallCancel(c) PROVE KeepsOwner
  <2> DEFINE t == call[c].tag
             a == call[c].caller_responsible /\ ~HandOver(c)
             b == call[c].timed /\ call[c].expired
             k == [[call[c] EXCEPT !.caller_responsible = a] EXCEPT !.timed_out = b]
  <2>1. /\ pc[c] = "woken" /\ InCall(c) /\ mapped' = mapped /\ states[t].state = "Waiting"
        /\ ~states[t].canceling /\ call' = Kept(c)
        /\ states' = [states EXCEPT ![t] = Handed(c)]
    BY <1>6, Zenon DEF CallCancel, Mine, InCall
  <2>2. t \in Tags /\ call[c].req = states[t].req /\ call[c].caller_responsible
    BY <2>1, RequestOf, Zenon DEF CallOK, Slots
  <2>3. states'[t] = Handed(c) /\ \A u \in Tags \ {t} : states'[u] = states[u]
    BY <2>1, <2>2, Zenon DEF Typed
  <2>4. call'[c] = k /\ \A d \in Callers \ {c} : call'[d] = call[d]
    BY <2>1, Zenon DEF Kept, Typed, CallSet
  <2>5. call[c] \in CallSet /\ a \in BOOLEAN /\ b \in BOOLEAN
    <3>1. call[c] \in CallSet
      BY Zenon DEF Typed
    <3> QED
      BY <3>1, CallFields, Zenon DEF HandOver
  <2>6. k.req = call[c].req /\ k.caller_responsible = a
    <3> HIDE DEF a, b
    <3> QED
      BY <2>5, Zenon DEF CallSet
  <2>7. \A r \in mapped : r # call[c].req /\ HasOwner(r) => HasOwner(r)'
    BY <1>t, <2>2, <2>3, <2>4, OwnersElsewhere
  <2>8. \A r : r = call[c].req => HasOwner(r)'
    <3>1. CASE HandOver(c)
      <4>1. Handed(c).state = "Waiting" /\ Handed(c).req = call[c].req /\ Handed(c).callee_responsible
        BY <2>1, <2>2, <3>1, HandedSlot, Zenon DEF HandOver
      <4> QED
        BY <2>2, <2>3, <4>1 DEF HasOwner
    <3>2. CASE ~HandOver(c)
      <4>1. a
        BY <2>2, <3>2, Zenon
      <4> HIDE DEF k, a
      <4> QED
        BY <2>4, <2>6, <4>1, Zenon DEF HasOwner
    <3> QED
      BY <3>1, <3>2, Zenon
  <2> HIDE DEF k
  <2> QED
    BY <2>1, <2>7, <2>8, Zenon DEF KeepsOwner
<1>7. ASSUME NEW c \in Callers, Expire(c) PROVE KeepsOwner
  <2> DEFINE k == [call[c] EXCEPT !.expired = TRUE]
  <2>1. /\ UNCHANGED <<states, mapped>>
        /\ call'[c] = k /\ \A d \in Callers \ {c} : call'[d] = call[d]
    BY <1>7, Zenon DEF Expire, kernelVars, Typed
  <2>2. k.req = call[c].req /\ k.caller_responsible = call[c].caller_responsible
    BY CallChanges, Zenon DEF Typed
  <2> HIDE DEF k
  <2>3. \A d \in Callers : call'[d].req = call[d].req /\ call'[d].caller_responsible = call[d].caller_responsible
    BY <2>1, <2>2, Zenon
  <2>4. \A r : HasOwner(r) => HasOwner(r)'
    BY <2>1, <2>3, Zenon DEF HasOwner
  <2> QED
    BY <2>1, <2>4, Zenon DEF KeepsOwner
<1>8. CASE Answers
  <2>1. PICK h \in held, code \in {"ok", "EINTR", "ECANCELED"}, alive \in BOOLEAN : HandlerAnswer(h, code, alive)
    BY <1>8, Zenon DEF Answers
  <2>2. h.tag \in Tags
    BY Zenon DEF Typed, HeldSet
  <2>3. /\ mapped' = IF states[h.tag].callee_responsible THEN mapped \ {states[h.tag].req} ELSE mapped
        /\ call' = call
    BY <2>1, Zenon DEF HandlerAnswer, Respond
  <2>4. \A u \in Tags \ {h.tag} : states'[u] = states[u]
    BY <2>1, <2>2, Zenon DEF HandlerAnswer, Respond, Typed
  <2>5. mapped' \subseteq mapped /\ (states[h.tag].callee_responsible => states[h.tag].req \notin mapped')
    BY <2>3, Zenon
  <2> QED
    BY <2>2, <2>3, <2>4, <2>5, OwnersKept, Zenon
<1>9. ASSUME NEW c \in Callers,
             \/ CallAccepted(c) \/ CallBlock(c) \/ CallSend(c) \/ CallResume(c) \/ CallCanceling(c)
             \/ CallReblock(c) \/ ForceKill(c) \/ Exit(c) \/ Interrupt(c)
      PROVE  UNCHANGED <<states, call, mapped>>
  BY <1>9, Zenon DEF CallAccepted, CallBlock, CallSend, CallResume, CallCanceling, CallReblock, ForceKill, Exit,
              Interrupt, kernelVars
<1>10. CASE HandlerRead \/ HandlerStep \/ UnmountStore \/ UnmountNotify
  <2>1. UNCHANGED <<states, call, mapped>>
    BY <1>10, Zenon DEF HandlerRead, HandlerStep, HandlerReceive, HandlerWait, HandlerEof, HandlerResume,
                 UnmountStore, UnmountNotify, kernelVars
  <2> QED
    BY <2>1, <1>q, Zenon
<1>11. CASE UNCHANGED vars
  BY <1>11, <1>q, Zenon DEF vars
<1>12. ASSUME NEW c \in Callers, CallStep(c) PROVE KeepsOwner
  BY <1>12, <1>2, <1>3, <1>4, <1>5, <1>6, <1>9, <1>q, Zenon DEF CallStep
<1>13. ASSUME NEW c \in Callers, ForceKill(c) \/ Exit(c) \/ Interrupt(c) PROVE KeepsOwner
  BY <1>13, <1>9, <1>q, Zenon
<1> QED
  BY <1>1, <1>7, <1>8, <1>10, <1>11, <1>12, <1>13, Zenon DEF Next

(* No step takes the last owner from a mapped buffer: the caller's CaptureGuard, or the  *)
(* slot with callee_responsible, unmaps it.  The exception is a call that is killed       *)
(* while it is being cancelled for its timeout.                                          *)
THEOREM BuffersKeepOwner == Spec => BufferKeepsOwner
<1>1. IInv /\ [Next]_vars => [KeepsOwner]_vars
  BY OwnerStep, Zenon
<1>2. [KeepsOwner]_vars <=> [\A r \in mapped' :
        \/ HasOwner(r)'
        \/ r \in mapped /\ ~HasOwner(r)
        \/ \E c \in Callers : call[c].req = r /\ call[c].timed_out /\ killed[c] > 0]_vars
  BY Zenon DEF KeepsOwner
<1> QED
  BY <1>1, <1>2, Invariance, PTL DEF Spec, BufferKeepsOwner
=============================================================================
