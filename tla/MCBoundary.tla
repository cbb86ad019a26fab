----------------------------- MODULE MCBoundary ------------------------------
(***************************************************************************)
(* Foreign data that enters SolGuard: the HTTP 402 answers of a purchase,  *)
(* and the metadata of a request on its way to the logs.  The two do not   *)
(* touch each other, so the metadata varies only beside one answer that    *)
(* ends the purchase at once.                                              *)
(***************************************************************************)
EXTENDS Purchase, Sanitizer

Offer(amount) ==
  [supported |-> TRUE, amount |-> amount, padded |-> FALSE, payTo |-> "shop", timeout |-> 1]

Other == [Offer(5) EXCEPT !.supported = FALSE]

Response(offers) == [status |-> 402, headers |-> 1, wellFormed |-> TRUE, offers |-> offers]

Unpaid == [Response(<<Offer(5)>>) EXCEPT !.status = 200]

(* below, at and above a half of the last digit kept, at an even and an odd one *)
MCAnswers ==
  {Response(<<Offer(a)>>) : a \in {0, 5, 104, 105, 106, 115, 116}}
    \cup {Response(o) : o \in {<<>>, <<Other>>, <<Other, Offer(105)>>, <<Offer(5), Other>>,
                               <<Offer(5), Offer(106)>>, <<[Offer(105) EXCEPT !.padded = TRUE]>>,
                               <<[Offer(5) EXCEPT !.payTo = "kiosk"]>>,
                               <<[Offer(5) EXCEPT !.timeout = 0]>>,
                               <<[Offer(5) EXCEPT !.timeout = 2]>>,
                               <<[Offer(5) EXCEPT !.timeout = 3]>>}}
    \cup {Unpaid,
          [Response(<<Offer(5)>>) EXCEPT !.headers = 2],
          [Response(<<Offer(5)>>) EXCEPT !.wellFormed = FALSE]}

MCChallenges ==
  [status : {200, 402}, authenticate : BOOLEAN, wellFormed : BOOLEAN, minor : {0, 1, 105},
   decimals : 0..3, recipient : {"shop"}, expires : {-1, 0, 1}]

MCOwnerOf ==
  [a \in {"p1", "p2", "s1", "s2", "x1", "k1"} |->
     CASE a \in {"p1", "p2"} -> "payer"
       [] a \in {"s1", "s2"} -> "shop"
       [] a = "k1" -> "kiosk"
       [] OTHER -> "somebody"]

Plus(account, amount) == account :> amount

Minus(account, amount) == account :> -amount

(* transactions that look like the payment, and those that nearly do *)
MCEarlier ==
  LET paid == Transaction(Minus("p1", 105) @@ Plus("s1", 105)) IN
  [payment |-> [paid EXCEPT !.failed = TRUE],
   equal |-> paid,
   failed |-> [paid EXCEPT !.failed = TRUE],
   less |-> Transaction(Minus("p1", 104) @@ Plus("s1", 104)),
   split |-> Transaction(Minus("p1", 105) @@ Plus("s1", 5) @@ Plus("s2", 100)),
   foreign |-> Transaction(Minus("x1", 105) @@ Plus("s1", 105)),
   kiosk |-> Transaction(Minus("p1", 105) @@ Plus("k1", 105)),
   twice |-> Transaction(Minus("p1", 105) @@ Plus("s1", 105)
                           @@ Minus("p2", 105) @@ Plus("s2", 105)),
   more |-> Transaction(Minus("p1", 105) @@ Plus("s1", 105) @@ Minus("p2", 5) @@ Plus("x1", 5)),
   handedOver |-> [paid EXCEPT !.handedOver = {"s1"}],
   opened |-> [paid EXCEPT !.opened = {"s1"}, !.handedOver = {"s1"}]]

-----------------------------------------------------------------------------
MCKeyOrder ==
  <<<<"_redacted_key", "_2">>, <<"_redacted_key", "_2", "_2">>, <<"a", "a", "_2">>,
    <<"a", "a", "a", "b">>, <<"a", "a", "a", "c">>, <<"note">>, <<"password">>,
    <<"sec", "ret">>, <<"x", "sec", "ret">>>>

MCSensitiveKeys == {<<"password">>}

Secret == Text(<<"sec", "ret">>)

Leaves ==
  {[kind |-> "null"], Secret, Text(<<"a", "b", "c", "d">>), Text(<<"a", "b", "sec", "ret">>),
   Text(<<"sec", "ret", "sec", "ret", "b">>), Text(<<"a", "b", "c", "sec", "ret">>)}

Nested ==
  {List(<<>>), List(<<Secret, Text(<<"a">>), Secret>>), List(<<Secret, Secret, Secret, Secret>>),
   List(<<List(<<Secret>>)>>), List(<<Object(<<"note">> :> Secret)>>), Object(<<>>),
   Object(<<"password">> :> Text(<<"private">>)),
   Object(<<"password">> :> List(<<Text(<<"private">>)>>)),
   Object(<<"sec", "ret">> :> Secret), Object(<<"note">> :> Object(<<"note">> :> Secret)),
   Object(<<"note">> :> List(<<Secret>>)), Object(<<"a", "a", "a", "b">> :> Text(<<"a">>))}

KeySets(n) == {S \in SUBSET Range(MCKeyOrder) : Cardinality(S) <= n}

Plain(S) == [k \in S |-> Text(<<IF k = <<"password">> THEN "private" ELSE "a">>)]

(* up to four plain entries, or up to two, one of them of any kind *)
MCSamples ==
  {Object(Plain(S)) : S \in KeySets(4)}
    \cup UNION {{Object([Plain(S) EXCEPT ![k] = value]) : value \in Leaves \cup Nested} :
                  <<S, k>> \in {<<S, k>> \in KeySets(2) \X Range(MCKeyOrder) : k \in S}}

(* the values of lists and objects, but for what a sensitive field hides *)
Inside(S) ==
  S \cup UNION {CASE v.kind = "list" -> Range(v.items)
                  [] v.kind = "object" ->
                       {v.entries[k] : k \in {k \in DOMAIN v.entries : ~Hides(k, v.entries[k])}}
                  [] OTHER -> {} : v \in S}

MCValues ==
  {value : value \in MCSamples \cup {Text(<<"a">>)} \cup Inside(Inside(Leaves \cup Nested))}

MCIndexText == [i \in 0..(MaxItems - 1) |-> "_" \o ToString(i)]

-----------------------------------------------------------------------------
MCInit ==
  /\ Init
  /\ IF adapter = "simulated" /\ answer = Unpaid /\ offered = Unpaid THEN SanitizerInit
     ELSE metadata = Absent /\ copy = Absent /\ reported = {}

MCNext ==
  \/ Next /\ UNCHANGED sanitizerVars
  \/ Sanitize /\ UNCHANGED vars

MCSpec == MCInit /\ [][MCNext]_<<vars, sanitizerVars>>
=============================================================================
