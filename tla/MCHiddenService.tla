-------------------------- MODULE MCHiddenService --------------------------
(***************************************************************************)
(* Two requests at a time, for one service, for two, for a service and a    *)
(* clear host; sealed and open services; descriptor ids all over the ring.  *)
(***************************************************************************)
EXTENDS HiddenService

CONSTANTS t1, t2

One == <<"one", "onion">>
Sub == <<"www", "one", "onion">>
Two == <<"two", "onion">>
Three == <<"three", "onion">>
Web == <<"www", "example", "com">>

Ring(a, b, c, d) == [p \in 0..1 |-> [r \in 0..1 |->
  IF p = 0 THEN IF r = 0 THEN a ELSE b ELSE IF r = 0 THEN c ELSE d]]

Middle == Ring(1, 5, 3, 7)

Sealed(type) == [cookie |-> "given", type |-> type]

Plain == [one |-> Open, two |-> Open, three |-> Open]

Scene(front, a, b, auth, one, place) ==
  [front |-> front, want |-> (t1 :> a @@ t2 :> b), auth |-> auth,
   seal |-> [Plain EXCEPT !.one = one], place |-> place, version3 |-> {"three"}, shared |-> FALSE]

Nothing == <<>>
Has(cookie, type) == One :> [cookie |-> cookie, type |-> type]

SomeScenes ==
  {Scene("requests", One, Sub, Nothing, Open, Middle),
   Scene("requests", One, Two, Nothing, Open, Ring(5, 9, 1, 9)),
   Scene("urlopener", Sub, Web, Nothing, Open, Middle),
   Scene("urlopener", One, Web, Nothing, Open, Ring(9, 3, 1, 5)),
   Scene("socks", One, One, Nothing, Open, Middle),
   Scene("socks", One, Two, Nothing, Open, Middle),
   Scene("socks", One, Web, Nothing, Open, Middle),
   Scene("requests", One, Three, Has("given", Basic), Sealed(Basic), Middle),
   Scene("requests", One, Web, Has("given", Stealth), Sealed(Stealth), Middle)}
  \cup {Scene("urlopener", One, Web, Has("other", type), Sealed(type), Middle) :
          type \in {Basic, Stealth}}
  \cup {Scene("urlopener", One, Web, auth, Sealed(Basic), Middle) :
          auth \in {Nothing, Has("given", Stealth), Has(None, Basic), Has("given", No)}}

(* One failure anywhere; in two scenes two, which a search survives if its  *)
(* second replica has directories, and does not if it has none.             *)
Twice ==
  {Scene("urlopener", One, Three, Nothing, Open, place) : place \in {Middle, Ring(5, 9, 1, 9)}}

(* Two services with the same introduction points. *)
Common ==
  {[Scene("urlopener", One, Two, Nothing, Open, Middle) EXCEPT !.shared = TRUE]}

AllScenes == SomeScenes \cup Twice \cup Common

SomeFaults ==
  [s \in AllScenes |-> IF s \in Twice THEN 2 ELSE IF s \in Common THEN 0 ELSE 1]
=============================================================================
