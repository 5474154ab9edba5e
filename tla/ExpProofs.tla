------------------------------ MODULE ExpProofs ------------------------------
(***************************************************************************)
(* The interpreter of Exp.BIN never reads past the end of a text, gets back*)
(* to the text it left after ID(), and reports the first error there was,  *)
(* for every text and however deep its records refer to one another.       *)
(***************************************************************************)
EXTENDS ExpTool, SequenceTheorems, TLAPS

(* A parser state has these fields.  Nothing is said of the values.        *)
IsParser(s) ==
  DOMAIN s = {"slot", "i", "y", "asg", "v", "open", "depth", "buf", "err", "at", "range",
              "first", "x"}

Reading(s) ==
  /\ IsParser(s)
  /\ s.err \in BOOLEAN
  /\ s.depth \in Nat
  /\ s.slot \in 1..MaxDepth
  /\ s.buf \in [1..MaxDepth -> Seq(STRING)]
  /\ s.i \in Nat
  /\ s.i <= Len(Source(s)) + 1

(* What reading on does to the errors: nothing, or there is one at p.      *)
Same(s, t) == t.err = s.err /\ t.at = s.at /\ t.first = s.first
ErrorAt(s, t, p) ==
  /\ p # <<>> /\ t.err = TRUE
  /\ t.at = (IF s.err THEN s.at ELSE p)
  /\ t.first = (IF s.first = <<>> THEN p ELSE s.first)
Fault(s, t) == Same(s, t) \/ \E p : ErrorAt(s, t, p)

SameText(s, t) == t.slot = s.slot /\ t.depth = s.depth /\ t.buf = s.buf

Follows(s, t) == Reading(t) /\ SameText(s, t) /\ Fault(s, t) /\ s.i <= t.i

(* Everything the invariant speaks of is in s as in t.                     *)
Twins(s, t) == IsParser(t) /\ SameText(s, t) /\ Same(s, t)
-----------------------------------------------------------------------------
LEMMA AdvFields ==
  ASSUME NEW s, IsParser(s)
  PROVE  Twins(s, Adv(s)) /\ Adv(s).i = s.i + 1
BY DEF IsParser, Adv, Twins, SameText, Same

LEMMA OutFields ==
  ASSUME NEW s, NEW v, IsParser(s)
  PROVE  Twins(s, Out(s, v)) /\ Out(s, v).i = s.i
BY DEF IsParser, Out, Twins, SameText, Same

LEMMA AssignFields ==
  ASSUME NEW s, IsParser(s)
  PROVE  Twins(s, Assign(s)) /\ Assign(s).i = s.i
BY DEF IsParser, Assign, Twins, SameText, Same

LEMMA OpeningFields ==
  ASSUME NEW s, NEW n, IsParser(s)
  PROVE  Twins(s, Opening(s, n)) /\ Opening(s, n).i = s.i
BY DEF IsParser, Opening, Twins, SameText, Same

LEMMA MovedFields ==
  ASSUME NEW s, NEW n, IsParser(s)
  PROVE  Twins(s, [s EXCEPT !.i = n]) /\ [s EXCEPT !.i = n].i = n
BY DEF IsParser, Twins, SameText, Same

LEMMA RangeFields ==
  ASSUME NEW s, NEW r, IsParser(s)
  PROVE  Twins(s, [s EXCEPT !.range = r]) /\ [s EXCEPT !.range = r].i = s.i
BY DEF IsParser, Twins, SameText, Same

LEMMA FailFields ==
  ASSUME NEW s, IsParser(s)
  PROVE  /\ IsParser(fail(s)) /\ SameText(s, fail(s)) /\ fail(s).i = s.i
         /\ ErrorAt(s, fail(s), <<s.slot, s.i>>)
<1>1. /\ IsParser(fail(s)) /\ SameText(s, fail(s)) /\ fail(s).i = s.i
      /\ fail(s).err = TRUE
  BY DEF IsParser, fail, SameText
<1>2. fail(s).at = (IF s.err THEN s.at ELSE <<s.slot, s.i>>)
  BY DEF IsParser, fail
<1>3. fail(s).first = (IF s.first = <<>> THEN <<s.slot, s.i>> ELSE s.first)
  BY DEF IsParser, fail
<1>4. <<s.slot, s.i>> # <<>>
  OBVIOUS
<1> QED
  BY <1>1, <1>2, <1>3, <1>4 DEF ErrorAt
-----------------------------------------------------------------------------
(* A state that differs in nothing but the place follows if the place is   *)
(* in the text.                                                            *)
LEMMA TwinFollows ==
  ASSUME NEW s, NEW t, Reading(s), Twins(s, t),
         t.i \in Nat, s.i <= t.i, t.i <= Len(Source(s)) + 1
  PROVE  Follows(s, t)
BY DEF Reading, Twins, Follows, Fault, Same, SameText, Source

LEMMA SelfFollows ==
  ASSUME NEW s, Reading(s)
  PROVE  Follows(s, s)
BY DEF Follows, Fault, Same, SameText, Reading

(* An error after an error leaves the first.                               *)
LEMMA FaultTwice ==
  ASSUME NEW s, NEW t, NEW u, Fault(s, t), Fault(t, u)
  PROVE  Fault(s, u)
<1>1. CASE Same(t, u)
  BY <1>1 DEF Fault, Same, ErrorAt
<1>2. CASE \E q : ErrorAt(t, u, q)
  <2> PICK q : ErrorAt(t, u, q)
    BY <1>2
  <2>1. CASE Same(s, t)
    BY <2>1 DEF Fault, Same, ErrorAt
  <2>2. CASE \E p : ErrorAt(s, t, p)
    <3> PICK p : ErrorAt(s, t, p)
      BY <2>2
    <3>1. t.err /\ t.first # <<>>
      BY DEF ErrorAt
    <3>2. ErrorAt(s, u, p)
      BY <3>1 DEF ErrorAt
    <3> QED
      BY <3>2 DEF Fault
  <2> QED
    BY <2>1, <2>2 DEF Fault
<1> QED
  BY <1>1, <1>2 DEF Fault

LEMMA FollowsOn ==
  ASSUME NEW s, NEW t, NEW u, Reading(s), Follows(s, t), Follows(t, u)
  PROVE  Follows(s, u)
<1>1. Fault(s, u)
  BY FaultTwice DEF Follows
<1>2. s.i <= t.i /\ t.i <= u.i /\ s.i \in Nat /\ t.i \in Nat /\ u.i \in Nat
  BY DEF Follows, Reading
<1>3. s.i <= u.i
  BY <1>2
<1> QED
  BY <1>1, <1>3 DEF Follows, SameText

LEMMA TokenWithin ==
  ASSUME NEW s, Tok(s) # ""
  PROVE  s.i <= Len(Source(s))
BY DEF Tok

LEMMA FollowsAdv ==
  ASSUME NEW s, Reading(s), s.i <= Len(Source(s))
  PROVE  Follows(s, Adv(s))
<1>1. Len(Source(s)) \in Nat
  BY DEF Reading, Source
<1> QED
  BY <1>1, AdvFields, TwinFollows DEF Reading

LEMMA FollowsPlain ==
  ASSUME NEW s, Reading(s)
  PROVE  /\ \A v : Follows(s, Out(s, v))
         /\ \A n : Follows(s, Opening(s, n))
         /\ Follows(s, Assign(s))
         /\ \A r : Follows(s, [s EXCEPT !.range = r])
         /\ Follows(s, [s EXCEPT !.i = Len(Source(s)) + 1])
<1>1. IsParser(s) /\ s.i \in Nat /\ s.i <= Len(Source(s)) + 1 /\ Len(Source(s)) \in Nat
  BY DEF Reading, Source
<1>2. \A v : Follows(s, Out(s, v))
  BY <1>1, OutFields, TwinFollows
<1>3. \A n : Follows(s, Opening(s, n))
  BY <1>1, OpeningFields, TwinFollows
<1>4. Follows(s, Assign(s))
  BY <1>1, AssignFields, TwinFollows
<1>5. \A r : Follows(s, [s EXCEPT !.range = r])
  <2>1. ASSUME NEW r PROVE Follows(s, [s EXCEPT !.range = r])
    <3> DEFINE t == [s EXCEPT !.range = r]
    <3>1. Twins(s, t) /\ t.i = s.i
      BY <1>1, RangeFields
    <3> HIDE DEF t
    <3>2. Follows(s, t)
      BY <1>1, <3>1, TwinFollows
    <3> QED
      BY <3>2 DEF t
  <2> QED
    BY <2>1
<1>6. Follows(s, [s EXCEPT !.i = Len(Source(s)) + 1])
  <2>1. /\ Twins(s, [s EXCEPT !.i = Len(Source(s)) + 1])
        /\ [s EXCEPT !.i = Len(Source(s)) + 1].i = Len(Source(s)) + 1
    BY <1>1, MovedFields
  <2>2. /\ Len(Source(s)) + 1 \in Nat /\ Len(Source(s)) + 1 <= Len(Source(s)) + 1
        /\ s.i <= Len(Source(s)) + 1
    BY <1>1
  <2> QED
    BY <2>1, <2>2, TwinFollows
<1> QED
  BY <1>2, <1>3, <1>4, <1>5, <1>6

LEMMA FollowsFail ==
  ASSUME NEW s, Reading(s)
  PROVE  Follows(s, fail(s))
<1>1. /\ IsParser(fail(s)) /\ SameText(s, fail(s)) /\ fail(s).i = s.i
      /\ ErrorAt(s, fail(s), <<s.slot, s.i>>)
  BY FailFields DEF Reading
<1>2. Fault(s, fail(s))
  BY <1>1 DEF Fault
<1>3. Reading(fail(s))
  BY <1>1 DEF Reading, SameText, ErrorAt, Source
<1> QED
  BY <1>1, <1>2, <1>3 DEF Follows, Reading

LEMMA FollowsReading ==
  ASSUME NEW s, NEW t, Follows(s, t)
  PROVE  Reading(t)
BY DEF Follows

(* A token is left behind.                                                 *)
LEMMA FollowsToken ==
  ASSUME NEW s, Reading(s), Tok(s) # ""
  PROVE  Follows(s, Adv(s))
BY TokenWithin, FollowsAdv

LEMMA FollowsTokens ==
  ASSUME NEW s, Reading(s), Tok(s) # "", Tok(Adv(s)) # ""
  PROVE  Follows(s, Adv(Adv(s)))
BY FollowsToken, FollowsReading, FollowsOn

LEMMA FollowsAdvPast ==
  ASSUME NEW s, Reading(s)
  PROVE  Follows(s, AdvPast(s))
BY FollowsToken, SelfFollows DEF AdvPast

LEMMA FollowsExpect ==
  ASSUME NEW s, Reading(s), NEW w, w # ""
  PROVE  Follows(s, Expect(s, w))
BY FollowsToken, FollowsFail DEF Expect

LEMMA FollowsFailOut ==
  ASSUME NEW s, Reading(s), NEW v
  PROVE  Follows(s, Out(fail(s), v))
BY FollowsFail, FollowsPlain, FollowsReading, FollowsOn

LEMMA FollowsOutFail ==
  ASSUME NEW s, Reading(s), NEW v
  PROVE  Follows(s, AdvPast(Out(fail(s), v)))
BY FollowsFailOut, FollowsAdvPast, FollowsReading, FollowsOn

LEMMA FollowsTokenOut ==
  ASSUME NEW s, Reading(s), Tok(s) # "", NEW v
  PROVE  Follows(s, Out(Adv(s), v)) /\ Follows(s, Out(fail(Adv(s)), v))
<1>1. Follows(s, Adv(s)) /\ Reading(Adv(s))
  BY FollowsToken, FollowsReading
<1>2. Follows(Adv(s), Out(Adv(s), v)) /\ Follows(Adv(s), Out(fail(Adv(s)), v))
  BY <1>1, FollowsPlain, FollowsFailOut
<1> QED
  BY <1>1, <1>2, FollowsOn

LEMMA FollowsBracket ==
  ASSUME NEW s, Reading(s), Tok(s) \in DOMAIN Texts \cup {"["}
  PROVE  Follows(s, parse_bracket_text(s))
<1>1. Tok(s) # ""
  BY ExpAssumption
<1>2. CASE Tok(s) \in DOMAIN Texts
  <2>1. Follows(s, Out(Adv(s), TextVal(Texts[Tok(s)])))
    BY <1>1, FollowsTokenOut
  <2> QED
    BY <1>2, <2>1 DEF parse_bracket_text
<1>3. CASE Tok(s) \notin DOMAIN Texts
  <2> DEFINE e == [s EXCEPT !.i = Len(Source(s)) + 1]
  <2>1. Follows(s, e)
    BY FollowsPlain
  <2> HIDE DEF e
  <2>2. \A v : Follows(e, Out(fail(e), v))
    BY <2>1, FollowsFailOut, FollowsReading
  <2>3. \A v : Follows(s, Out(fail(e), v))
    BY <2>1, <2>2, FollowsOn
  <2> QED
    BY <1>3, <2>3 DEF parse_bracket_text, e
<1> QED
  BY <1>2, <1>3

LEMMA FollowsPlainWord ==
  ASSUME NEW s, Reading(s), Tok(s) # ""
  PROVE  Follows(s, PlainWord(s))
BY FollowsTokenOut DEF PlainWord

LEMMA FollowsLimits ==
  ASSUME NEW s, Reading(s), NEW args
  PROVE  Follows(s, Limits(s, args))
<1> DEFINE o == Out(s, Num(Whole(1)))
<1>1. Follows(s, o) /\ Reading(o)
  BY FollowsPlain, FollowsReading
<1> HIDE DEF o
<1>2. \A r : Follows(s, [o EXCEPT !.range = r])
  BY <1>1, FollowsPlain, FollowsOn
<1> QED
  BY <1>2 DEF Limits, o

LEMMA FollowsResult ==
  ASSUME NEW s, Reading(s), NEW name, NEW args
  PROVE  Follows(s, Result(s, name, args))
<1>1. \A v : Follows(s, Out(s, v))
  BY FollowsPlain
<1>2. \A v : Follows(s, Out(fail(s), v))
  BY FollowsFailOut
<1> QED
  BY <1>1, <1>2, FollowsLimits DEF Result

LEMMA FollowsAssigned ==
  ASSUME NEW s, Reading(s)
  PROVE  Follows(s, Assigned(s))
<1>1. Follows(s, Assign(s)) /\ Reading(Assign(s))
  BY FollowsPlain, FollowsReading
<1>2. Follows(s, AdvPast(Assign(s))) /\ Follows(s, fail(Assign(s)))
  BY <1>1, FollowsAdvPast, FollowsFail, FollowsOn
<1> QED
  BY <1>2 DEF Assigned

LEMMA FollowsBare ==
  ASSUME NEW s, Reading(s), NEW i, NEW err
  PROVE  Follows(s, Bare(s, i, err))
<1>1. Follows(s, Assign(s)) /\ Reading(Assign(s))
  BY FollowsPlain, FollowsReading
<1>2. Follows(s, AdvPast(fail(s)))
  BY FollowsFail, FollowsReading, FollowsAdvPast, FollowsOn
<1>3. ASSUME Tok(s) = ";" PROVE Follows(s, Adv(Assign(s)))
  <2>1. Tok(Assign(s)) = Tok(s)
    BY AssignFields DEF Reading, Twins, SameText, Tok, Source
  <2> QED
    BY <1>1, <1>3, <2>1, FollowsToken, FollowsOn
<1> QED
  BY <1>1, <1>2, <1>3 DEF Bare
-----------------------------------------------------------------------------
(* The evaluations ev that were begun, with the parser p of the innermost: *)
(* each waits at a place of its own text, which nothing has written over.  *)
IsSeq(q) == \E S : q \in Seq(S)

Held(p, ev, k) ==
  LET c == ev[k].caller
  IN  /\ DOMAIN ev[k] = {"caller", "calls", "turns", "before"}
      /\ Reading(c) /\ c.depth = k - 1
      /\ k > 1 => c.slot = k - 1 /\ p.buf[k - 1] = c.buf[k - 1]
      /\ ev[k].before \in Nat /\ ev[k].before <= Len(p.buf[k])

(* Where the first error was is known as long as no evaluation further out *)
(* has one: that one's counts.                                             *)
Quiet(ev, n) == \A m \in 1..n : ~ev[m].caller.err

Errors(p, ev) ==
  /\ ~p.err => p.at = <<>>
  /\ p.first = <<>> <=> ~p.err /\ Quiet(ev, Len(ev))
  /\ \A k \in 1..Len(ev) :
       ev[k].caller.err /\ Quiet(ev, k - 1) => p.first = ev[k].caller.at
  /\ p.err /\ Quiet(ev, Len(ev)) => p.first = p.at
  /\ IF ev = <<>> THEN ~p.err ELSE ~ev[1].caller.err

(* The place evaluation k is at.                                           *)
PlaceOf(p, ev, k) == IF k = Len(ev) THEN p.i ELSE ev[k + 1].caller.i

Nested(p, ev) ==
  /\ Reading(p)
  /\ IsSeq(ev) /\ p.depth = Len(ev)
  /\ ev # <<>> => p.slot = Len(ev)
  /\ \A k \in 1..Len(ev) : Held(p, ev, k) /\ ev[k].before <= PlaceOf(p, ev, k)
  /\ Errors(p, ev)

LEMMA SeqLen ==
  ASSUME NEW q, IsSeq(q)
  PROVE  Len(q) \in Nat /\ DOMAIN q = 1..Len(q) /\ (q = <<>> <=> Len(q) = 0)
<1> PICK S : q \in Seq(S)
  BY DEF IsSeq
<1> QED
  BY EmptySeq

LEMMA SeqAppend ==
  ASSUME NEW q, NEW e, IsSeq(q)
  PROVE  /\ IsSeq(Append(q, e)) /\ Len(Append(q, e)) = Len(q) + 1
         /\ Append(q, e)[Len(q) + 1] = e
         /\ \A k \in 1..Len(q) : Append(q, e)[k] = q[k]
<1> PICK S : q \in Seq(S)
  BY DEF IsSeq
<1> DEFINE T == S \cup {e}
<1>1. q \in Seq(T) /\ e \in T
  OBVIOUS
<1> HIDE DEF T
<1> QED
  BY <1>1, AppendProperties DEF IsSeq

LEMMA SeqFront ==
  ASSUME NEW q, IsSeq(q), q # <<>>
  PROVE  /\ IsSeq(Front(q)) /\ Len(Front(q)) = Len(q) - 1
         /\ \A k \in 1..(Len(q) - 1) : Front(q)[k] = q[k]
<1> PICK S : q \in Seq(S)
  BY DEF IsSeq
<1>1. Len(q) \in Nat \ {0}
  BY EmptySeq
<1>2. Front(q) = [k \in 1..(Len(q) - 1) |-> q[k]]
  BY <1>1 DEF Front
<1>3. Front(q) \in Seq(S) /\ Len(Front(q)) = Len(q) - 1
  BY <1>1, <1>2
<1> QED
  BY <1>2, <1>3 DEF IsSeq

LEMMA NestedFollows ==
  ASSUME NEW p, NEW q, NEW ev, Nested(p, ev), Follows(p, q), ev # <<>>
  PROVE  Nested(q, ev)
<1>1. Reading(q) /\ SameText(p, q) /\ Fault(p, q)
  BY DEF Follows
<1>2. \A k \in 1..Len(ev) : Held(q, ev, k)
  BY <1>1 DEF Nested, Held, SameText
<1>3. Errors(q, ev)
  <2>1. CASE Same(p, q)
    BY <2>1 DEF Nested, Errors, Same
  <2>2. CASE \E e : ErrorAt(p, q, e)
    <3> PICK e : ErrorAt(p, q, e)
      BY <2>2
    <3>1. p.err \in BOOLEAN /\ Errors(p, ev)
      BY DEF Nested, Reading
    <3>2. q.err /\ q.first # <<>>
      BY DEF ErrorAt
    <3>3. ASSUME NEW k \in 1..Len(ev), ev[k].caller.err, Quiet(ev, k - 1)
          PROVE  q.first = ev[k].caller.at
      BY <3>1, <3>3 DEF ErrorAt, Errors, Quiet
    <3>4. Quiet(ev, Len(ev)) => q.first = q.at
      BY <3>1 DEF ErrorAt, Errors
    <3> QED
      BY <3>1, <3>2, <3>3, <3>4 DEF Errors
  <2> QED
    BY <1>1, <2>1, <2>2 DEF Fault
<1>4. ASSUME NEW k \in 1..Len(ev) PROVE ev[k].before <= PlaceOf(q, ev, k)
  <2>1. /\ ev[k].before <= PlaceOf(p, ev, k) /\ ev[k].before \in Nat
        /\ p.i <= q.i /\ p.i \in Nat /\ q.i \in Nat
    BY DEF Nested, Held, Follows, Reading
  <2> QED
    BY <2>1 DEF PlaceOf
<1> QED
  BY <1>1, <1>2, <1>3, <1>4 DEF Nested, SameText

LEMMA EnterFields ==
  ASSUME NEW s, NEW id, Reading(s), CanEnter(s, id)
  PROVE  /\ Reading(Enter(s, id))
         /\ Enter(s, id).slot = s.depth + 1 /\ Enter(s, id).depth = s.depth + 1
         /\ \A k \in 1..MaxDepth : k # s.depth + 1 => Enter(s, id).buf[k] = s.buf[k]
         /\ Enter(s, id).i = 1 /\ Enter(s, id).err = FALSE /\ Enter(s, id).at = <<>>
         /\ Enter(s, id).first = s.first
<1> DEFINE t == Enter(s, id)
<1>1. /\ IsParser(s) /\ s.depth \in Nat /\ s.depth < MaxDepth
      /\ s.buf \in [1..MaxDepth -> Seq(STRING)]
  BY DEF Reading, CanEnter
<1>2. exp_source(id) \in Seq(STRING)
  BY ExpAssumption DEF exp_source, CanEnter
<1>3. IsParser(t) /\ t.slot = s.depth + 1 /\ t.depth = s.depth + 1 /\ t.i = 1
  BY <1>1 DEF IsParser, Enter, Begin
<1>4. t.buf = [s.buf EXCEPT ![s.depth + 1] = exp_source(id)]
  BY <1>1 DEF IsParser, Enter, Begin
<1>5. t.err = FALSE /\ t.at = <<>> /\ t.first = s.first
  BY <1>1 DEF IsParser, Enter, Begin
<1> HIDE DEF t
<1>6. MaxDepth \in Nat /\ s.depth + 1 \in 1..MaxDepth
  <2>1. MaxDepth \in Nat
    BY ExpAssumption
  <2> QED
    BY <1>1, <2>1
<1>7. t.buf \in [1..MaxDepth -> Seq(STRING)]
  BY <1>1, <1>2, <1>4, <1>6
<1>8. Reading(t)
  <2>1. Source(t) \in Seq(STRING)
    BY <1>3, <1>6, <1>7 DEF Source
  <2>2. Len(Source(t)) \in Nat
    BY <2>1
  <2>3. t.err \in BOOLEAN
    BY <1>5, Zenon
  <2>4. t.i \in Nat /\ t.i <= Len(Source(t)) + 1
    BY <1>3, <2>2
  <2> QED
    BY <1>1, <1>3, <1>6, <1>7, <2>3, <2>4 DEF Reading
<1> QED
  BY <1>1, <1>3, <1>4, <1>5, <1>8 DEF t

LEMMA NestedEnters ==
  ASSUME NEW p, NEW ev, NEW id, NEW waiting, Nested(p, ev), CanEnter(p, id)
  PROVE  Nested(Enter(p, id),
                Append(ev, [caller |-> p, calls |-> waiting, turns |-> 0, before |-> 0]))
<1> DEFINE e == [caller |-> p, calls |-> waiting, turns |-> 0, before |-> 0]
           q == Enter(p, id)
           new == Append(ev, e)
           n == Len(ev)
<1>1. /\ e.caller = p /\ e.before = 0
      /\ DOMAIN e = {"caller", "calls", "turns", "before"}
  OBVIOUS
<1> HIDE DEF e
<1>2. /\ Reading(p) /\ IsSeq(ev) /\ p.depth = n /\ Errors(p, ev) /\ n \in Nat
      /\ (ev = <<>> <=> n = 0) /\ (n > 0 => p.slot = n)
  BY SeqLen DEF Nested
<1>3. /\ IsSeq(new) /\ Len(new) = n + 1 /\ new[n + 1] = e
      /\ \A k \in 1..n : new[k] = ev[k]
  BY <1>2, SeqAppend
<1>4. /\ Reading(q) /\ q.slot = n + 1 /\ q.depth = n + 1
      /\ \A k \in 1..MaxDepth : k # n + 1 => q.buf[k] = p.buf[k]
      /\ q.i = 1 /\ q.err = FALSE /\ q.at = <<>> /\ q.first = p.first
  <2>1. /\ Reading(q) /\ q.slot = p.depth + 1 /\ q.depth = p.depth + 1
        /\ \A k \in 1..MaxDepth : k # p.depth + 1 => q.buf[k] = p.buf[k]
        /\ q.i = 1 /\ q.err = FALSE /\ q.at = <<>> /\ q.first = p.first
    BY <1>2, EnterFields, Zenon
  <2> HIDE DEF q
  <2> QED
    BY <1>2, <2>1, Zenon
<1>5. n + 1 \in 1..MaxDepth /\ MaxDepth \in Nat
  BY <1>4, ExpAssumption DEF Reading
<1> HIDE DEF q, new
<1>6. ASSUME NEW k \in 1..n PROVE Held(q, new, k)
  <2>1. Held(p, ev, k) /\ new[k] = ev[k]
    BY <1>3 DEF Nested
  <2>2. q.buf[k] = p.buf[k] /\ (k > 1 => q.buf[k - 1] = p.buf[k - 1])
    BY <1>2, <1>4, <1>5
  <2> QED
    BY <2>1, <2>2 DEF Held
<1>7. Held(q, new, n + 1)
  <2>1. n + 1 > 1 => p.slot = n /\ q.buf[n] = p.buf[n]
    BY <1>2, <1>4, <1>5
  <2>2. q.buf[n + 1] \in Seq(STRING)
    BY <1>4, <1>5 DEF Reading
  <2>3. Len(q.buf[n + 1]) \in Nat
    BY <2>2
  <2> QED
    BY <1>1, <1>2, <1>3, <2>1, <2>3 DEF Held
<1>8. Errors(q, new)
  <2>1. p.err \in BOOLEAN
    BY <1>2 DEF Reading
  <2>2. \A m \in 0..n : Quiet(new, m) <=> Quiet(ev, m)
    BY <1>2, <1>3 DEF Quiet
  <2>3. Quiet(new, n + 1) <=> ~p.err /\ Quiet(ev, n)
    BY <1>1, <1>2, <1>3 DEF Quiet
  <2>4. q.first = <<>> <=> ~q.err /\ Quiet(new, Len(new))
    BY <1>2, <1>3, <1>4, <2>1, <2>3 DEF Errors
  <2>5. ASSUME NEW k \in 1..Len(new), new[k].caller.err, Quiet(new, k - 1)
        PROVE  q.first = new[k].caller.at
    <3>1. CASE k = n + 1
      BY <1>1, <1>2, <1>3, <1>4, <2>2, <2>5, <3>1 DEF Errors
    <3>2. CASE k # n + 1
      <4>1. k \in 1..n /\ k - 1 \in 0..n
        BY <1>2, <1>3, <3>2
      <4> QED
        BY <1>2, <1>3, <1>4, <2>2, <2>5, <4>1 DEF Errors
    <3> QED
      BY <3>1, <3>2
  <2>6. new # <<>> /\ ~new[1].caller.err
    <3>1. new # <<>>
      BY <1>2, <1>3, SeqLen
    <3>2. CASE n = 0
      BY <1>1, <1>2, <1>3, <3>1, <3>2 DEF Errors
    <3>3. CASE n > 0
      BY <1>2, <1>3, <3>1, <3>3 DEF Errors
    <3> QED
      BY <1>2, <3>1, <3>2, <3>3
  <2> QED
    BY <1>4, <2>4, <2>5, <2>6 DEF Errors
<1>9. \A k \in 1..Len(new) : Held(q, new, k)
  BY <1>2, <1>3, <1>6, <1>7
<1>10. ASSUME NEW k \in 1..Len(new) PROVE new[k].before <= PlaceOf(q, new, k)
  <2>1. CASE k = n + 1
    BY <1>1, <1>3, <1>4, <2>1 DEF PlaceOf
  <2>2. CASE k # n + 1
    <3>1. k \in 1..n /\ new[k] = ev[k] /\ k # Len(new)
      BY <1>2, <1>3, <2>2
    <3>2. ev[k].before <= PlaceOf(p, ev, k)
      BY <3>1 DEF Nested
    <3>3. new[k + 1].caller.i = PlaceOf(p, ev, k)
      <4>1. CASE k = n
        BY <1>1, <1>3, <4>1 DEF PlaceOf
      <4>2. CASE k # n
        <5>1. k + 1 \in 1..n
          BY <1>2, <3>1, <4>2
        <5> QED
          BY <1>3, <4>2, <5>1 DEF PlaceOf
      <4> QED
        BY <4>1, <4>2
    <3> QED
      BY <3>1, <3>2, <3>3 DEF PlaceOf
  <2> QED
    BY <2>1, <2>2
<1>11. Nested(q, new)
  BY <1>3, <1>4, <1>8, <1>9, <1>10 DEF Nested
<1> QED
  BY <1>11 DEF q, new, e

LEMMA NestedTurns ==
  ASSUME NEW p, NEW ev, NEW turns, Nested(p, ev), ev # <<>>, p.i <= Len(Source(p))
  PROVE  Nested(p, [ev EXCEPT ![Len(ev)] = [@ EXCEPT !.before = p.i, !.turns = turns]])
<1> DEFINE n == Len(ev)
           e == [ev[n] EXCEPT !.before = p.i, !.turns = turns]
           new == [ev EXCEPT ![n] = e]
<1> PICK S : ev \in Seq(S)
  BY DEF Nested, IsSeq
<1>1. n \in Nat \ {0} /\ Reading(p) /\ p.slot = n
  BY EmptySeq DEF Nested
<1>2. Held(p, ev, n)
  BY <1>1 DEF Nested
<1>3. e.caller = ev[n].caller /\ e.before = p.i /\ DOMAIN e = DOMAIN ev[n]
  BY <1>2 DEF Held
<1> HIDE DEF e
<1>4. /\ new \in Seq(S \cup {e}) /\ Len(new) = n
      /\ new[n] = e /\ \A k \in 1..n : k # n => new[k] = ev[k]
  <2>1. ev \in Seq(S \cup {e}) /\ e \in S \cup {e}
    OBVIOUS
  <2> HIDE DEF e
  <2> QED
    BY <1>1, <2>1
<1> HIDE DEF new
<1>5. \A k \in 1..n : new[k].caller = ev[k].caller
  BY <1>1, <1>3, <1>4
<1>6. \A k \in 1..n : Held(p, new, k)
  <2>1. ASSUME NEW k \in 1..n PROVE Held(p, new, k)
    <3>1. Held(p, ev, k)
      BY DEF Nested
    <3>2. CASE k = n
      BY <1>1, <1>3, <1>4, <3>1, <3>2 DEF Held, Source, Reading
    <3>3. CASE k # n
      BY <1>4, <3>1, <3>3 DEF Held
    <3> QED
      BY <3>2, <3>3
  <2> QED
    BY <2>1
<1>7. new # <<>>
  BY <1>1, <1>4, EmptySeq
<1>8. Errors(p, new)
  <2>1. \A m \in 0..n : Quiet(new, m) <=> Quiet(ev, m)
    BY <1>1, <1>5 DEF Quiet
  <2> QED
    BY <1>1, <1>4, <1>5, <1>7, <2>1 DEF Nested, Errors
<1>9. IsSeq(new)
  BY <1>4 DEF IsSeq
<1>10. ASSUME NEW k \in 1..n PROVE new[k].before <= PlaceOf(p, new, k)
  <2>1. CASE k = n
    BY <1>1, <1>3, <1>4, <2>1 DEF PlaceOf, Reading
  <2>2. CASE k # n
    <3>1. new[k] = ev[k] /\ k + 1 \in 1..n /\ ev[k].before <= PlaceOf(p, ev, k)
      BY <1>1, <1>4, <2>2 DEF Nested
    <3> QED
      BY <1>4, <1>5, <2>2, <3>1 DEF PlaceOf
  <2> QED
    BY <2>1, <2>2
<1>11. Nested(p, new)
  BY <1>1, <1>4, <1>6, <1>8, <1>9, <1>10 DEF Nested
<1> QED
  BY <1>11 DEF new, e

LEMMA LeaveFields ==
  ASSUME NEW s, NEW r, IsParser(r)
  PROVE  /\ IsParser(Leave(s, r)) /\ Leave(s, r).slot = s.slot /\ Leave(s, r).i = s.i
         /\ Leave(s, r).depth = s.depth /\ Leave(s, r).buf = r.buf
         /\ Leave(s, r).at = (IF s.err THEN s.at ELSE r.at)
         /\ Leave(s, r).first = r.first
BY DEF IsParser, Leave

LEMMA LeaveErr ==
  ASSUME NEW s, NEW r, IsParser(r)
  PROVE  Leave(s, r).err = (r.err \/ s.err)
BY DEF IsParser, Leave

LEMMA NestedLeaves ==
  ASSUME NEW p, NEW ev, Nested(p, ev), Len(ev) > 1
  PROVE  Nested(Leave(Last(ev).caller, p), Front(ev))
<1> DEFINE n == Len(ev)
           c == ev[n].caller
           q == Leave(c, p)
           new == Front(ev)
<1>1. /\ Reading(p) /\ IsParser(p) /\ IsSeq(ev) /\ n \in Nat /\ n > 1 /\ ev # <<>>
      /\ Errors(p, ev)
  BY SeqLen DEF Nested, Reading
<1>2. IsSeq(new) /\ Len(new) = n - 1 /\ \A k \in 1..(n - 1) : new[k] = ev[k]
  BY <1>1, SeqFront
<1>3. Reading(c) /\ c.depth = n - 1 /\ c.slot = n - 1 /\ p.buf[n - 1] = c.buf[n - 1]
  BY <1>1 DEF Nested, Held
<1>4. /\ IsParser(q) /\ q.slot = n - 1 /\ q.i = c.i /\ q.depth = n - 1 /\ q.buf = p.buf
      /\ q.at = (IF c.err THEN c.at ELSE p.at) /\ q.first = p.first
  BY <1>1, <1>3, LeaveFields
<1>5. q.err = (p.err \/ c.err)
  BY <1>1, LeaveErr
<1>6. p.err \in BOOLEAN /\ c.err \in BOOLEAN
  BY <1>1, <1>3 DEF Reading
<1>7. q.err \in BOOLEAN /\ (q.err <=> p.err \/ c.err)
  BY <1>5, <1>6, Zenon
<1> HIDE DEF q, new
<1>8. Reading(q)
  <2>1. Source(q) = Source(c)
    BY <1>3, <1>4 DEF Source
  <2> QED
    BY <1>1, <1>3, <1>4, <1>7, <2>1 DEF Reading
<1>9. ASSUME NEW k \in 1..Len(new) PROVE Held(q, new, k)
  <2>1. Held(p, ev, k) /\ new[k] = ev[k]
    BY <1>1, <1>2 DEF Nested
  <2> QED
    BY <1>4, <2>1 DEF Held
<1>10. Errors(q, new)
  <2>1. \A m \in 0..(n - 1) : Quiet(new, m) <=> Quiet(ev, m)
    BY <1>1, <1>2 DEF Quiet
  <2>2. Quiet(ev, n) <=> Quiet(ev, n - 1) /\ ~c.err
    BY <1>1 DEF Quiet
  <2>3. q.first = <<>> <=> ~q.err /\ Quiet(new, Len(new))
    BY <1>1, <1>2, <1>4, <1>7, <2>1, <2>2 DEF Errors
  <2>4. ~q.err => q.at = <<>>
    BY <1>1, <1>4, <1>7 DEF Errors
  <2>5. ASSUME q.err, Quiet(new, Len(new)) PROVE q.first = q.at
    <3>1. Quiet(ev, n - 1)
      BY <1>1, <1>2, <2>1, <2>5
    <3>2. CASE c.err
      BY <1>1, <1>4, <3>1, <3>2 DEF Errors
    <3>3. CASE ~c.err
      BY <1>1, <1>4, <1>7, <2>2, <2>5, <3>1, <3>3 DEF Errors
    <3> QED
      BY <3>2, <3>3
  <2>6. ASSUME NEW k \in 1..Len(new), new[k].caller.err, Quiet(new, k - 1)
        PROVE  q.first = new[k].caller.at
    <3>1. k \in 1..n /\ k - 1 \in 0..(n - 1) /\ new[k] = ev[k]
      BY <1>1, <1>2
    <3> QED
      BY <1>1, <1>4, <2>1, <2>6, <3>1 DEF Errors
  <2>7. new # <<>> /\ ~new[1].caller.err
    <3>1. new # <<>>
      BY <1>1, <1>2, SeqLen
    <3> QED
      BY <1>1, <1>2, <3>1 DEF Errors
  <2> QED
    BY <2>3, <2>4, <2>5, <2>6, <2>7 DEF Errors
<1>11. ASSUME NEW k \in 1..Len(new) PROVE new[k].before <= PlaceOf(q, new, k)
  <2>1. /\ k \in 1..n /\ k # n /\ new[k] = ev[k]
        /\ ev[k].before <= ev[k + 1].caller.i
    BY <1>1, <1>2 DEF Nested, PlaceOf
  <2>2. CASE k = n - 1
    BY <1>1, <1>2, <1>4, <2>1, <2>2 DEF PlaceOf
  <2>3. CASE k # n - 1
    <3>1. k + 1 \in 1..(n - 1)
      BY <1>1, <2>1, <2>3
    <3> QED
      BY <1>2, <2>1, <2>3, <3>1 DEF PlaceOf
  <2> QED
    BY <2>2, <2>3
<1>12. Nested(q, new)
  BY <1>2, <1>4, <1>8, <1>9, <1>10, <1>11 DEF Nested
<1>13. Last(ev) = ev[n]
  BY DEF Last
<1> QED
  BY <1>12, <1>13 DEF q, new
-----------------------------------------------------------------------------
Busy == doing \notin {"fetch", "done"}

ExpInv ==
  /\ Nested(parser, evals)
  /\ Busy => evals # <<>>
  /\ doing = "fetch" => evals = <<>>
  /\ MovesOn
  /\ report # NoReport => doing = "done"
  /\ ErrorKept

(* A step reads on, or begins, counts or ends an evaluation.               *)
ReadsOn == Follows(parser, parser') /\ doing' # "loop" /\ UNCHANGED evals
Begins  ==
  \E p, id, waiting :
    /\ Follows(parser, p) /\ CanEnter(p, id) /\ parser' = Enter(p, id)
    /\ evals' = Append(evals, [caller |-> p, calls |-> waiting, turns |-> 0, before |-> 0])

LEMMA BusyReads ==
  ASSUME ExpInv, Busy
  PROVE  Reading(parser) /\ evals # <<>>
BY DEF ExpInv, Nested

LEMMA ReadingOnStays ==
  ASSUME ExpInv, Busy, ReadsOn, Busy', UNCHANGED report
  PROVE  ExpInv'
<1>1. Nested(parser', evals)
  BY BusyReads, NestedFollows DEF ExpInv, ReadsOn
<1>2. MovesOn'
  BY DEF ReadsOn, MovesOn
<1> QED
  BY <1>1, <1>2, BusyReads DEF ExpInv, ReadsOn, Busy, ErrorKept

(* What has just begun has had no turn.                                    *)
LEMMA NoTurnYet ==
  ASSUME NEW p, NEW waiting, IsSeq(evals),
         evals' = Append(evals, [caller |-> p, calls |-> waiting, turns |-> 0, before |-> 0])
  PROVE  MovesOn' /\ evals' # <<>>
<1>1. /\ IsSeq(evals') /\ Len(evals') = Len(evals) + 1 /\ Len(evals) \in Nat
      /\ evals'[Len(evals) + 1] =
           [caller |-> p, calls |-> waiting, turns |-> 0, before |-> 0]
  BY SeqAppend, SeqLen
<1>2. Innermost'.turns = 0
  BY <1>1 DEF Innermost, Last
<1> QED
  BY <1>1, <1>2, SeqLen DEF MovesOn

LEMMA BeginningStays ==
  ASSUME ExpInv, Busy, Begins, Busy', UNCHANGED report
  PROVE  ExpInv'
<1> PICK p, id, waiting :
      /\ Follows(parser, p) /\ CanEnter(p, id) /\ parser' = Enter(p, id)
      /\ evals' = Append(evals, [caller |-> p, calls |-> waiting, turns |-> 0, before |-> 0])
  BY DEF Begins
<1>1. Nested(p, evals)
  BY BusyReads, NestedFollows DEF ExpInv
<1>2. Nested(parser', evals')
  BY <1>1, NestedEnters
<1>3. MovesOn' /\ evals' # <<>>
  BY <1>1, NoTurnYet DEF Nested
<1> QED
  BY <1>2, <1>3 DEF ExpInv, Busy, ErrorKept
-----------------------------------------------------------------------------
(* What every action does: it reads on or begins an evaluation.            *)
Proceeds == (ReadsOn \/ Begins) /\ Busy'

LEMMA Going ==
  ASSUME NEW s, NEW next, Follows(parser, s), next \notin {"fetch", "done", "loop"}, Go(s, next)
  PROVE  Proceeds
BY DEF Go, Proceeds, ReadsOn, Busy

LEMMA Calling ==
  ASSUME NEW f, NEW s, NEW next, Follows(parser, s), next \notin {"fetch", "done", "loop"},
         Call(f, s, next)
  PROVE  Proceeds
BY DEF Call, Proceeds, ReadsOn, Busy

LEMMA Returning ==
  ASSUME NEW s, NEW next, Follows(parser, s), next \notin {"fetch", "done", "loop"}, Return(s, next)
  PROVE  Proceeds
BY DEF Return, Proceeds, ReadsOn, Busy

LEMMA Becoming ==
  ASSUME NEW f, NEW s, NEW next, Follows(parser, s), next \notin {"fetch", "done", "loop"},
         Become(f, s, next)
  PROVE  Proceeds
BY DEF Become, Proceeds, ReadsOn, Busy

LEMMA Evaluating ==
  ASSUME NEW name, NEW s, NEW args, NEW waiting, Reading(parser), Reading(s),
         Follows(parser, s),
         call(name, s, args, waiting)
  PROVE  Proceeds
<1>1. CASE name = "id" /\ CanEnter(s, Long(Arg(args, 1)))
  BY <1>1 DEF call, exp_eval, Proceeds, Begins, Busy
<1>2. CASE ~(name = "id" /\ CanEnter(s, Long(Arg(args, 1))))
  <2>1. Follows(parser, Result(s, name, args))
    BY FollowsResult, FollowsOn
  <2> QED
    BY <1>2, <2>1 DEF call, Proceeds, ReadsOn, Busy
<1> QED
  BY <1>1, <1>2

LEMMA WordsThere == "" \notin DOMAIN Literals \cup DOMAIN Texts \cup WordsOf
BY ExpAssumption

LEMMA PrimaryProceeds ==
  ASSUME Reading(parser), parse_primary
  PROVE  Proceeds
<1>1. CASE /\ Token \in DOMAIN Literals /\ Tok(After) = "("
           /\ Call([what |-> "scaled", floor |-> 1, by |-> parse_number(parser)], Adv(After),
                   "operand")
  <2>1. Follows(parser, Adv(After))
    BY <1>1, WordsThere, FollowsTokens DEF Token, After
  <2> QED
    BY <1>1, <2>1, Calling
<1>2. CASE /\ Token \in DOMAIN Literals /\ Tok(After) # "("
           /\ Go(Out(After, parse_number(parser)), "operators")
  <2>1. Follows(parser, Out(After, parse_number(parser)))
    BY <1>2, WordsThere, FollowsTokenOut DEF Token, After
  <2> QED
    BY <1>2, <2>1, Going
<1>3. CASE Token \in DOMAIN Texts \cup {"["} /\ Go(parse_bracket_text(parser), "operators")
  <2>1. Follows(parser, parse_bracket_text(parser))
    BY <1>3, FollowsBracket DEF Token
  <2> QED
    BY <1>3, <2>1, Going
<1>4. CASE Token = "(" /\ Call([what |-> "paren", floor |-> 1], After, "operand")
  <2>1. Follows(parser, After)
    BY <1>4, FollowsToken DEF Token, After
  <2> QED
    BY <1>4, <2>1, Calling
<1>5. CASE /\ Token \in WordsOf /\ Tok(After) = "(" /\ Tok(Adv(After)) = ")"
           /\ call(Token, Adv(Adv(After)), <<>>, calls)
  <2>1. Follows(parser, Adv(After)) /\ Reading(Adv(After))
    BY <1>5, WordsThere, FollowsTokens, FollowsReading DEF Token, After
  <2>2. Follows(parser, Adv(Adv(After))) /\ Reading(Adv(Adv(After)))
    BY <1>5, <2>1, FollowsToken, FollowsOn, FollowsReading
  <2> QED
    BY <1>5, <2>2, Evaluating
<1>6. CASE /\ Token \in WordsOf /\ Tok(After) = "(" /\ Tok(Adv(After)) # ")"
           /\ Call([what |-> "args", floor |-> 1, fn |-> Token, got |-> <<>>], Adv(After), "arg")
  <2>1. Follows(parser, Adv(After))
    BY <1>6, WordsThere, FollowsTokens DEF Token, After
  <2> QED
    BY <1>6, <2>1, Calling
<1>7. CASE Token \in WordsOf /\ Tok(After) # "(" /\ Go(PlainWord(parser), "operators")
  <2>1. Follows(parser, PlainWord(parser))
    BY <1>7, WordsThere, FollowsPlainWord DEF Token
  <2> QED
    BY <1>7, <2>1, Going
<1>8. CASE Go(AdvPast(Out(fail(parser), Num(Zero))), "operators")
  <2>1. Follows(parser, AdvPast(Out(fail(parser), Num(Zero))))
    BY FollowsOutFail
  <2> QED
    BY <1>8, <2>1, Going
<1> QED
  BY <1>1, <1>2, <1>3, <1>4, <1>5, <1>6, <1>7, <1>8 DEF parse_primary

LEMMA UnaryProceeds ==
  ASSUME Reading(parser), parse_unary
  PROVE  Proceeds
<1>1. CASE /\ Token \in {"-", "!"}
           /\ Call([what |-> "unary", floor |-> Unary, op |-> Token], After, "operand")
  <2>1. Follows(parser, After)
    BY <1>1, FollowsToken DEF Token, After
  <2> QED
    BY <1>1, <2>1, Calling
<1>2. CASE Token = "!=" /\ Go(Out(fail(After), Num(Whole(1))), "operators")
  <2>1. Follows(parser, Out(fail(After), Num(Whole(1))))
    BY <1>2, FollowsTokenOut DEF Token, After
  <2> QED
    BY <1>2, <2>1, Going
<1> QED
  BY <1>1, <1>2, PrimaryProceeds DEF parse_unary

LEMMA ArgsProceed ==
  ASSUME Reading(parser), parse_args
  PROVE  Proceeds
<1>1. CASE Token \in DOMAIN Texts \cup {"["} /\ Go(parse_bracket_text(parser), "value")
  <2>1. Follows(parser, parse_bracket_text(parser))
    BY <1>1, FollowsBracket DEF Token
  <2> QED
    BY <1>1, <2>1, Going
<1>2. CASE Token = "boundless" /\ Go(Out(After, Num(INFINITY)), "value")
  <2>1. Follows(parser, Out(After, Num(INFINITY)))
    BY <1>2, FollowsTokenOut DEF Token, After
  <2> QED
    BY <1>2, <2>1, Going
<1>3. CASE Go(parser, "operand")
  BY <1>3, SelfFollows, Going
<1> QED
  BY <1>1, <1>2, <1>3 DEF parse_args

LEMMA NoEmptyOperator ==
  ASSUME NEW k \in DOMAIN Levels
  PROVE  "" \notin Levels[k]
<1>1. /\ "" \notin Levels[1] /\ "" \notin Levels[2] /\ "" \notin Levels[3]
      /\ "" \notin Levels[4] /\ "" \notin Levels[5] /\ "" \notin Levels[6]
      /\ "" \notin Levels[7] /\ "" \notin Levels[8] /\ "" \notin Levels[9]
  BY DEF Levels
<1>2. k \in 1..9
  BY DEF Levels
<1>3. k = 1 \/ k = 2 \/ k = 3 \/ k = 4 \/ k = 5 \/ k = 6 \/ k = 7 \/ k = 8 \/ k = 9
  BY <1>2
<1> QED
  BY <1>1, <1>3

LEMMA OperatorProceeds ==
  ASSUME Reading(parser), Operator
  PROVE  Proceeds
<1> PICK k \in DOMAIN Levels :
      /\ Taken(k)
      /\ Call([what |-> "binary", floor |-> k + 1, op |-> Token, left |-> parser.v], After,
              "operand")
  BY DEF Operator
<1>1. Token # ""
  BY NoEmptyOperator DEF Taken
<1>2. Follows(parser, After)
  BY <1>1, FollowsToken DEF Token, After
<1> QED
  BY <1>2, Calling

LEMMA ValueProceeds ==
  ASSUME Reading(parser), Binary \/ Prefixed \/ Grouped \/ Scaled
  PROVE  Proceeds
<1>1. \A v : Follows(parser, Out(parser, v))
  BY FollowsPlain
<1>2. Follows(parser, Expect(parser, ")")) /\ Reading(Expect(parser, ")"))
  BY FollowsExpect, FollowsReading
<1>3. \A v : Follows(parser, Out(Expect(parser, ")"), v))
  BY <1>2, FollowsPlain, FollowsOn
<1>4. CASE Binary
  BY <1>1, <1>4, Returning DEF Binary
<1>5. CASE Prefixed
  BY <1>1, <1>5, Returning DEF Prefixed
<1>6. CASE Grouped
  BY <1>2, <1>6, Returning DEF Grouped
<1>7. CASE Scaled
  BY <1>3, <1>7, Returning DEF Scaled
<1> QED
  BY <1>4, <1>5, <1>6, <1>7

LEMMA ArgumentProceeds ==
  ASSUME Reading(parser), Argument
  PROVE  Proceeds
<1> DEFINE all == IF Len(Waiting.got) < MaxArgs THEN Append(Waiting.got, parser.v) ELSE Waiting.got
<1> HIDE DEF all
<1>1. CASE Token # "," /\ call(Waiting.fn, Expect(parser, ")"), all, Tail(calls))
  <2>1. Follows(parser, Expect(parser, ")")) /\ Reading(Expect(parser, ")"))
    BY FollowsExpect, FollowsReading
  <2> QED
    BY <1>1, <2>1, Evaluating
<1>2. CASE /\ Token = "," /\ Tok(After) = ")"
           /\ call(Waiting.fn, Adv(After), all, Tail(calls))
  <2>1. Follows(parser, Adv(After)) /\ Reading(Adv(After))
    BY <1>2, FollowsTokens, FollowsReading DEF Token, After
  <2> QED
    BY <1>2, <2>1, Evaluating
<1>3. CASE Token = "," /\ Become([Waiting EXCEPT !.got = all], After, "arg")
  <2>1. Follows(parser, After)
    BY <1>3, FollowsToken DEF Token, After
  <2> QED
    BY <1>3, <2>1 DEF Become, Proceeds, ReadsOn, Busy
<1> QED
  BY <1>1, <1>2, <1>3 DEF Argument, all

LEMMA StatementValueProceeds ==
  ASSUME Reading(parser), Condition \/ Assignment \/ BareValue
  PROVE  Proceeds
<1>1. CASE Condition
  <2>1. Follows(parser, Expect(parser, ")"))
    BY FollowsExpect
  <2> QED
    BY <1>1, <2>1, Becoming DEF Condition
<1>2. CASE Assignment
  BY <1>2, FollowsAssigned, Returning DEF Assignment
<1>3. CASE BareValue
  BY <1>3, FollowsBare, Returning DEF BareValue
<1> QED
  BY <1>1, <1>2, <1>3

LEMMA AssignmentProceeds ==
  ASSUME Reading(parser), Token # "", parse_assignment(After)
  PROVE  Proceeds
<1>1. Follows(parser, After) /\ Reading(After)
  BY FollowsToken, FollowsReading DEF Token, After
<1>2. CASE Go(fail(After), "back")
  BY <1>1, <1>2, FollowsFail, FollowsOn, Going
<1>3. CASE Tok(After) = "=" /\ Go(Adv(After), "stmt")
  <2>1. Follows(parser, Adv(After))
    BY <1>1, <1>3, FollowsToken, FollowsOn
  <2> QED
    BY <1>3, <2>1, Going
<1>4. CASE Tok(After) = "=" /\ Call([what |-> "=", floor |-> 1], Adv(After), "operand")
  <2>1. Follows(parser, Adv(After))
    BY <1>1, <1>4, FollowsToken, FollowsOn
  <2> QED
    BY <1>4, <2>1 DEF Call, Proceeds, ReadsOn, Busy
<1>5. CASE Call([what |-> "=", floor |-> 1], After, "operand")
  BY <1>1, <1>5 DEF Call, Proceeds, ReadsOn, Busy
<1> QED
  BY <1>2, <1>3, <1>4, <1>5 DEF parse_assignment

LEMMA StatementProceeds ==
  ASSUME Reading(parser), parse_stmt
  PROVE  Proceeds
<1>1. CASE Token = "" /\ Go(parser, "back")
  BY <1>1, SelfFollows, Going
<1>2. CASE Token = ";" /\ Go(After, "back")
  BY <1>2, FollowsToken, Going DEF Token, After
<1>3. CASE /\ Token = "if" /\ Tok(After) = "("
           /\ Call([what |-> "if(", floor |-> 1], Adv(After), "operand")
  <2>1. Follows(parser, Adv(After))
    BY <1>3, FollowsTokens DEF Token, After
  <2> QED
    BY <1>3, <2>1, Calling
<1>4. CASE Token = "if" /\ Go(fail(After), "back")
  <2>1. Follows(parser, After) /\ Reading(After)
    BY <1>4, FollowsToken, FollowsReading DEF Token, After
  <2> QED
    BY <1>4, <2>1, FollowsFail, FollowsOn, Going
<1>5. CASE Assigns /\ parse_assignment(After)
  BY <1>5, AssignmentProceeds DEF Assigns
<1>6. CASE Call([what |-> "bare", floor |-> 1, i |-> parser.i, err |-> parser.err], parser,
                "operand")
  BY <1>6, SelfFollows, Calling
<1>7. CASE Go(AdvPast(fail(parser)), "back")
  <2>1. Follows(parser, AdvPast(fail(parser)))
    BY FollowsFail, FollowsAdvPast, FollowsReading, FollowsOn
  <2> QED
    BY <1>7, <2>1, Going
<1> QED
  BY <1>1, <1>2, <1>3, <1>4, <1>5, <1>6, <1>7 DEF parse_stmt

LEMMA ElseProceeds ==
  ASSUME Reading(parser), Else
  PROVE  Proceeds
<1>1. CASE Token = "else"
  <2> PICK next \in {"skip", "stmt"} : Return(After, next)
    BY <1>1 DEF Else
  <2>1. Follows(parser, After)
    BY <1>1, FollowsToken DEF Token, After
  <2> QED
    BY <2>1, Returning
<1>2. CASE Token # "else"
  BY <1>2, SelfFollows, Returning DEF Else
<1> QED
  BY <1>1, <1>2

LEMMA SkipProceeds ==
  ASSUME Reading(parser), skip_stmt
  PROVE  Proceeds
<1>1. ASSUME Token = "if" PROVE Follows(parser, After) /\ Follows(parser, Opening(After, 0))
  <2>1. Follows(parser, After) /\ Reading(After)
    BY <1>1, FollowsToken, FollowsReading DEF Token, After
  <2> QED
    BY <2>1, FollowsPlain, FollowsOn
<1>2. CASE Token = "if" /\ skip_if(Opening(After, 0), "condition")
  BY <1>1, <1>2, Calling DEF skip_if
<1>3. CASE Token = "if" /\ skip_if(After, "skip")
  BY <1>1, <1>3, Calling DEF skip_if
<1>4. CASE Go(Opening(parser, 0), "assignment")
  BY <1>4, FollowsPlain, Going
<1> QED
  BY <1>2, <1>3, <1>4 DEF skip_stmt

LEMMA SkippingProceeds ==
  ASSUME Reading(parser), SkipCondition \/ SkipAssignment
  PROVE  Proceeds
<1>1. ASSUME Token # ""
      PROVE  Follows(parser, After) /\ \A n : Follows(parser, Opening(After, n))
  <2>1. Follows(parser, After) /\ Reading(After)
    BY <1>1, FollowsToken, FollowsReading DEF Token, After
  <2> QED
    BY <2>1, FollowsPlain, FollowsOn
<1>2. CASE SkipCondition
  <2> DEFINE open == parser.open + Paren(Token)
  <2> HIDE DEF open
  <2>1. CASE Token = "" /\ Return(parser, "back")
    BY <2>1, SelfFollows, Returning
  <2>2. CASE Token # "" /\ Go(Opening(After, open), IF open > 0 THEN "condition" ELSE "skip")
    BY <1>1, <2>2, Going
  <2> QED
    BY <1>2, <2>1, <2>2 DEF SkipCondition, open
<1>3. CASE SkipAssignment
  <2>1. CASE Go(parser, "back")
    BY <2>1, SelfFollows, Going
  <2>2. CASE Token = ";" /\ Go(After, "back")
    BY <1>1, <2>2, Going
  <2>3. CASE /\ Token # ""
             /\ Go(Opening(After, parser.open + Bracket(Token)), "assignment")
    BY <1>1, <2>3 DEF Go, Proceeds, ReadsOn, Busy
  <2> QED
    BY <1>3, <2>1, <2>2, <2>3 DEF SkipAssignment
<1> QED
  BY <1>2, <1>3
-----------------------------------------------------------------------------
LEMMA TurnStays ==
  ASSUME ExpInv, Turn, UNCHANGED report
  PROVE  ExpInv'
<1>1. Busy /\ evals # <<>> /\ Nested(parser, evals)
  BY DEF ExpInv, Turn, Busy
<1>2. parser.i <= Len(Source(parser))
  BY TokenWithin DEF Turn, Ended, Token
<1>3. Nested(parser, evals')
  <2> DEFINE turns == Innermost.turns + 1
  <2>1. evals' = [evals EXCEPT ![Len(evals)] = [@ EXCEPT !.before = parser.i, !.turns = turns]]
    BY DEF Turn
  <2> HIDE DEF turns
  <2> QED
    BY <1>1, <1>2, <2>1, NestedTurns
<1>4. evals' # <<>>
  BY <1>1, <1>3, SeqLen DEF Nested
<1>5. MovesOn'
  BY DEF Turn, MovesOn
<1> QED
  BY <1>1, <1>3, <1>4, <1>5 DEF ExpInv, Turn, Busy, ErrorKept

LEMMA TurnedStays ==
  ASSUME ExpInv, Turned, UNCHANGED report
  PROVE  ExpInv'
<1> DEFINE q == IF parser.i = Innermost.before THEN Adv(fail(parser)) ELSE parser
<1>1. Busy /\ evals # <<>> /\ Nested(parser, evals) /\ Reading(parser)
  BY DEF ExpInv, Turned, Busy, Nested
<1>2. /\ Len(evals) \in 1..Len(evals) /\ Innermost = evals[Len(evals)]
      /\ parser.slot = Len(evals)
  BY <1>1, SeqLen DEF Nested, Innermost, Last
<1>3. /\ Innermost.before <= Len(Source(parser)) /\ Innermost.before \in Nat
      /\ Innermost.before <= parser.i /\ parser.i \in Nat
  BY <1>1, <1>2 DEF Nested, Held, Source, PlaceOf, Reading
<1>4. Follows(parser, q) /\ q.i > Innermost.before
  <2>1. CASE parser.i = Innermost.before
    <3>1. Follows(parser, fail(parser)) /\ Reading(fail(parser))
      BY <1>1, FollowsFail, FollowsReading
    <3>2. fail(parser).i = parser.i /\ fail(parser).i <= Len(Source(fail(parser)))
      BY <1>1, <1>3, <2>1, FailFields DEF Reading, SameText, Source
    <3>3. Follows(parser, Adv(fail(parser)))
      BY <1>1, <3>1, <3>2, FollowsAdv, FollowsOn
    <3>4. Adv(fail(parser)).i = parser.i + 1
      BY <3>1, <3>2, AdvFields DEF Reading
    <3> QED
      BY <1>3, <2>1, <3>3, <3>4
  <2>2. CASE parser.i # Innermost.before
    BY <1>1, <1>3, <2>2, SelfFollows
  <2> QED
    BY <2>1, <2>2
<1>5. parser' = q /\ evals' = evals /\ doing' = "loop"
  BY DEF Turned, Go
<1> HIDE DEF q
<1>6. Nested(parser', evals')
  BY <1>1, <1>4, <1>5, NestedFollows
<1>7. MovesOn'
  BY <1>4, <1>5 DEF MovesOn, Innermost
<1> QED
  BY <1>1, <1>5, <1>6, <1>7 DEF ExpInv, Busy, ErrorKept

LEMMA LeftStays ==
  ASSUME ExpInv, Left, UNCHANGED report
  PROVE  ExpInv'
<1>1. Busy /\ Nested(parser, evals) /\ Len(evals) > 1
  BY DEF ExpInv, Left, Busy
<1>2. Nested(parser', evals')
  BY <1>1, NestedLeaves DEF Left, Innermost
<1>3. evals' # <<>>
  BY <1>1, SeqLen, SeqFront DEF Left, Nested
<1>4. MovesOn'
  BY DEF Left, MovesOn
<1> QED
  BY <1>1, <1>2, <1>3, <1>4 DEF ExpInv, Left, Busy, ErrorKept

LEMMA ProceedingStays ==
  ASSUME ExpInv, Busy, Proceeds, UNCHANGED report
  PROVE  ExpInv'
BY ReadingOnStays, BeginningStays DEF Proceeds

LEMMA InterpretStays ==
  ASSUME ExpInv, Interpret, UNCHANGED report
  PROVE  ExpInv'
<1>1. CASE Turn
  BY <1>1, TurnStays
<1>2. CASE Left
  BY <1>2, LeftStays
<1>3. CASE Turned
  BY <1>3, TurnedStays
<1>4. CASE ~(Turn \/ Left \/ Turned)
  <2>1. Busy
    BY <1>4 DEF Interpret, Busy, parse_stmt, parse_unary, parse_args, Operator, Binary,
       Prefixed, Grouped, Scaled, Argument, Condition, Assignment, BareValue, Else, Gets,
       skip_stmt, SkipCondition, SkipAssignment
  <2>2. Reading(parser)
    BY <2>1, BusyReads
  <2>3. Proceeds
    BY <1>4, <2>2, UnaryProceeds, ArgsProceed, OperatorProceeds, ValueProceeds,
       ArgumentProceeds, StatementValueProceeds, StatementProceeds, ElseProceeds,
       SkipProceeds, SkippingProceeds DEF Interpret
  <2> QED
    BY <2>1, <2>3, ProceedingStays
<1> QED
  BY <1>1, <1>2, <1>3, <1>4

LEMMA FetchStays ==
  ASSUME ExpInv, Fetch
  PROVE  ExpInv'
<1>1. Nested(parser, evals) /\ CanEnter(parser, asked)
  BY DEF ExpInv, Fetch
<1>2. /\ parser' = Enter(parser, asked)
      /\ evals' = Append(evals, [caller |-> parser, calls |-> <<>>, turns |-> 0, before |-> 0])
  BY DEF Fetch, exp_eval
<1>3. Nested(parser', evals')
  BY <1>1, <1>2, NestedEnters
<1>4. MovesOn' /\ evals' # <<>>
  BY <1>1, <1>2, NoTurnYet DEF Nested
<1> QED
  BY <1>3, <1>4 DEF ExpInv, Fetch, exp_eval, ErrorKept

LEMMA ReportStays ==
  ASSUME ExpInv, Report
  PROVE  ExpInv'
<1> DEFINE r == IF parser.asg
                THEN [y |-> parser.y, err |-> parser.err, range |-> parser.range]
                ELSE NoResult
<1>1. report' = <<r>> /\ doing' = "done" /\ UNCHANGED <<parser, evals>>
  BY DEF Report
<1>2. parser.asg => r.err = parser.err
  OBVIOUS
<1> HIDE DEF r
<1>3. report'[1] = r
  BY <1>1
<1>4. /\ Len(evals) \in {0, 1} /\ Errors(parser, evals) /\ parser.err \in BOOLEAN
      /\ IsSeq(evals)
  BY SeqLen DEF Report, ExpInv, Nested, Reading
<1>5. Quiet(evals, Len(evals))
  <2>1. CASE Len(evals) = 0
    BY <2>1 DEF Quiet
  <2>2. CASE Len(evals) = 1
    <3>1. evals # <<>>
      BY <1>4, <2>2, SeqLen
    <3>2. ~evals[1].caller.err
      BY <1>4, <3>1 DEF Errors
    <3> QED
      BY <2>2, <3>2 DEF Quiet
  <2> QED
    BY <1>4, <2>1, <2>2
<1>6. (parser.first = <<>> <=> ~parser.err) /\ parser.at = parser.first
  BY <1>4, <1>5 DEF Errors
<1>7. parser.err = (parser.first # <<>>)
  BY <1>4, <1>6
<1>8. ErrorKept'
  BY <1>1, <1>2, <1>3, <1>6, <1>7 DEF ErrorKept
<1>9. MovesOn'
  BY <1>1 DEF MovesOn
<1> QED
  BY <1>1, <1>8, <1>9 DEF ExpInv, Busy
-----------------------------------------------------------------------------
LEMMA FreshReading ==
  ASSUME NEW x
  PROVE  Nested(Fresh(x), <<>>)
<1> DEFINE p == Fresh(x)
           texts == [k \in 1..MaxDepth |-> <<>>]
<1>1. /\ IsParser(p) /\ p.slot = 1 /\ p.i = 1 /\ p.depth = 0
      /\ p.err = FALSE /\ p.at = <<>> /\ p.first = <<>>
  BY DEF IsParser, Fresh
<1>2. p.buf = texts
  BY DEF Fresh
<1>3. 1 \in 1..MaxDepth
  <2>1. MaxDepth \in Nat \ {0}
    BY ExpAssumption
  <2> QED
    BY <2>1
<1>4. texts \in [1..MaxDepth -> Seq(STRING)] /\ texts[1] = <<>>
  BY <1>3
<1> HIDE DEF p, texts
<1>5. Reading(p)
  <2>1. p.err \in BOOLEAN
    BY <1>1, Zenon
  <2>2. Source(p) = <<>> /\ Len(Source(p)) = 0
    BY <1>1, <1>2, <1>4 DEF Source
  <2> QED
    BY <1>1, <1>2, <1>3, <1>4, <2>1, <2>2 DEF Reading
<1>6. IsSeq(<<>>) /\ Len(<<>>) = 0
  <2>1. <<>> \in Seq({})
    OBVIOUS
  <2> QED
    BY <2>1 DEF IsSeq
<1>7. Errors(p, <<>>)
  BY <1>1, <1>6 DEF Errors, Quiet
<1> QED
  BY <1>1, <1>5, <1>6, <1>7 DEF Nested, p

LEMMA ExpInvInit ==
  ASSUME ExpInit
  PROVE  ExpInv
BY FreshReading DEF ExpInit, NothingRead, ExpInv, Busy, ErrorKept, MovesOn

LEMMA ExpInvNext ==
  ASSUME ExpInv, [tool_exp]_evars
  PROVE  ExpInv'
<1>1. CASE Fetch
  BY <1>1, FetchStays
<1>2. CASE Step
  BY <1>2, InterpretStays DEF Step
<1>3. CASE Report
  BY <1>3, ReportStays
<1>4. CASE UNCHANGED evars
  BY <1>4 DEF evars, xvars, ExpInv, Busy, ErrorKept, MovesOn, Innermost
<1> QED
  BY <1>1, <1>2, <1>3, <1>4 DEF tool_exp

LEMMA ExpInvWithin ==
  ASSUME ExpInv
  PROVE  WithinText
<1>1. Nested(parser, evals) /\ MovesOn
  BY DEF ExpInv
<1>2. ReadsInside
  BY <1>1 DEF Nested, Reading, ReadsInside
<1>3. ASSUME NEW k \in 2..Len(evals)
      PROVE  LET caller == evals[k].caller
             IN  /\ parser.buf[caller.slot] = Source(caller)
                 /\ caller.i <= Len(Source(caller)) + 1
  <2>1. k \in 1..Len(evals) /\ k > 1
    BY <1>1, SeqLen DEF Nested
  <2>2. Held(parser, evals, k)
    BY <1>1, <2>1 DEF Nested
  <2> QED
    BY <2>1, <2>2 DEF Held, Reading, Source
<1> QED
  BY <1>1, <1>2, <1>3 DEF WithinText, ReturnsToItsText

(* Every text is read within its bounds, and what an ID() interrupts goes  *)
(* on in the text it was in, at the place it was at (skip_stmt, parse_stmt,*)
(* exp_eval with one src_buf per depth).                                   *)
THEOREM TextsAreKept == ExpSpec => []WithinText
<1>1. ExpInit => ExpInv
  BY ExpInvInit
<1>2. ExpInv /\ [tool_exp]_evars => ExpInv'
  BY ExpInvNext
<1>3. ExpInv => WithinText
  BY ExpInvWithin
<1> QED
  BY <1>1, <1>2, <1>3, PTL DEF ExpSpec

(* An evaluation ends with an error in the context exactly if there was    *)
(* one, and with the place of the first, in whichever record it was (fail, *)
(* and the two halves of exp_eval around exp_eval_text).                   *)
THEOREM FirstErrorIsReported == ExpSpec => []ErrorKept
<1>1. ExpInit => ExpInv
  BY ExpInvInit
<1>2. ExpInv /\ [tool_exp]_evars => ExpInv'
  BY ExpInvNext
<1>3. ExpInv => ErrorKept
  BY DEF ExpInv
<1> QED
  BY <1>1, <1>2, <1>3, PTL DEF ExpSpec
=============================================================================
