------------------------ MODULE StarDictClientProofs ------------------------
(***************************************************************************)
(* Proofs about StarDictClient: client and server stay in step, what is    *)
(* emitted is the answer to its command, and the pools only answer what    *)
(* the server would, for any hosts, users, masks, calls and pools, however *)
(* users, threads and server interleave.  That the parser can read each    *)
(* answer to a lookup by itself is ShapesAssumption, which TLC evaluates.  *)
(***************************************************************************)
EXTENDS StarDictClient, FiniteSetTheorems, SequenceTheorems, WellFoundedInduction, TLAPS

IsSeq(s) == \E S : s \in Seq(S)

Kinds == LookupKinds \cup StrKinds \cup ListKinds \cup {"setmask", "client", "auth", "quit"}
Cached == LookupKinds \cup StrKinds
Answers == Cached \cup ListKinds
People == Users \cup {Blank}

IsCommand(c) ==
    /\ c = [kind |-> c.kind, arg |-> c.arg, st |-> c.st, resp |-> c.resp, tags |-> c.tags]
    /\ c.kind \in Kinds
    /\ c.kind = "setmask" => c.arg \in Masks
    /\ c.kind = "getdictmask" => c.arg = Blank
    /\ c.kind = "auth" => c.arg \in People

Attempt == {a \in [phase : {"resolve", "connect"}, host : Hosts, sd : Nat] :
               a.phase = "connect" => a.sd # 0}

TypeInv ==
    /\ host \in Hosts /\ user \in People
    /\ hostResolved \in BOOLEAN /\ (hostResolved => sa \in Hosts)
    /\ attempts \in Seq(Attempt)
    /\ IsSeq(cmdlist) /\ \A i \in 1..Len(cmdlist) : IsCommand(cmdlist[i])
    /\ IsSeq(wire)
    /\ session \in [host : Hosts, user : People]
    /\ mask \in [Hosts -> [People -> Masks]]
    /\ waiting_banner \in BOOLEAN /\ moved \in BOOLEAN /\ doubt \in BOOLEAN /\ orphaned \in BOOLEAN

-----------------------------------------------------------------------------
\* A command that waits has nothing of an answer yet.
Untouched(c) == c.st = 0 /\ c.tags = {}

\* The first command was sent; or the answer to it is on its way, none of it read; or
\* it is read from the k-th piece of the answer on.
Asked ==
    /\ requests = <<cmdlist[1]>> /\ wire = <<>>
    /\ Untouched(cmdlist[1]) /\ reading_type = "line"

Of(c, shape) == wire[1].tag.key = Key(c) /\ wire[1].tag.shape = shape

Whole ==
    LET c == cmdlist[1]
    IN  /\ Untouched(c) /\ reading_type = "line"
        /\ \E code \in Codes(c), shape \in Shapes(c.kind) :
              /\ wire = Pieces(code, IF code = "ok" THEN Body(c.kind, shape) ELSE <<>>, wire[1].tag)
              /\ Of(c, shape)

PartFrom(c, shape, run, body, k) ==
    /\ ReadsTo(run, c.kind, body, shape)
    /\ Len(wire) = Len(body) - k + 1
    /\ \A i \in 1..Len(wire) :
          wire[i] = Piece(body[k + i - 1][1], body[k + i - 1][2], wire[1].tag)
    /\ Of(c, shape) /\ c.tags = {wire[1].tag}
    /\ run[k] = At(c)

Part ==
    LET c == cmdlist[1]
    IN  \E shape \in Shapes(c.kind) : \E run :
           \E k \in 1..Len(Body(c.kind, shape)) : PartFrom(c, shape, run, Body(c.kind, shape), k)

Answering == requests = <<>> /\ wire # <<>> /\ (Whole \/ Part)

Busy == Connected /\ ~waiting_banner

LockInv ==
    /\ ~Connected => requests = <<>> /\ wire = <<>>
    /\ Connected /\ waiting_banner =>
          requests = <<>> /\ Len(wire) = 1 /\ wire[1].how = "line" /\ reading_type = "line"
    /\ Busy => cmdlist # <<>> /\ (Asked \/ Answering)
    /\ \A i \in 1..Len(cmdlist) : i > 1 \/ ~Busy => Untouched(cmdlist[i])

-----------------------------------------------------------------------------
\* As long as users do not name another server or user, connections are made to the
\* server, and every command but the login is sent by the user who is named.
AddressInv ==
    ~moved => /\ \A i \in 1..Len(attempts) : attempts[i].host = host
              /\ hostResolved => sa = host
              /\ Connected => session.host = host

LoggedIn == IF Connected THEN session.user = user ELSE user = Blank
Auth(i) == i \in 1..Len(cmdlist) /\ cmdlist[i].kind = "auth"

LoginInv ==
    ~moved /\ ~orphaned =>
        /\ \A i \in 1..Len(cmdlist) : cmdlist[i].kind = "auth" => cmdlist[i].arg = user
        /\ Connected \/ cmdlist # <<>> => LoggedIn \/ \E i \in 1..Len(cmdlist) : Auth(i)
        /\ \A i \in 1..Len(cmdlist) :
              cmdlist[i].kind \notin {"client", "auth", "quit"} =>
                  LoggedIn \/ \E j \in 1..Len(cmdlist) : j < i /\ Auth(j)
        /\ Busy /\ wire # <<>> /\ Auth(1) /\ wire[1].value = "ok" => session.user = user

\* What an answer is the answer of is what the server still has in force.
InForceNow(t) == t.host = host /\ t.user = user /\ t.mask = mask[host][user]

FreshInv ==
    ~moved /\ ~doubt /\ ~orphaned =>
        /\ ~Unsure => /\ \A i \in 1..LookupPool : Current(lookups[i])
                      /\ \A i \in 1..StrPool : strs[i].key[1] = "getdictmask" => Current(strs[i])
        /\ Busy /\ wire # <<>> /\ cmdlist[1].kind \in Cached => InForceNow(wire[1].tag)

-----------------------------------------------------------------------------
\* The entries of the pools.
Exact(e) == \E t : e.tags = {t} /\ t.key = e.key /\ t.shape = e.got
IsEntry(e) ==
    /\ e # Free => Exact(e)
    /\ e.key[1] = "getdictmask" => e.key = <<"getdictmask", Blank>>

PoolInv ==
    /\ DOMAIN strs = 1..StrPool /\ strs = [i \in 1..StrPool |-> strs[i]] /\ strPos \in 1..StrPool
    /\ DOMAIN lookups = 1..LookupPool /\ lookups = [i \in 1..LookupPool |-> lookups[i]]
    /\ lookupPos \in 1..LookupPool
    /\ \A i \in 1..StrPool : IsEntry(strs[i])
    /\ \A i \in 1..LookupPool : IsEntry(lookups[i])

SaidInv == said # Free => Exact(said)

ClientInv == TypeInv /\ LockInv /\ AddressInv /\ LoginInv /\ FreshInv /\ PoolInv /\ SaidInv


-----------------------------------------------------------------------------
(***************************************************************************)
(* Sequences of any kind, and numbers.                                     *)
(***************************************************************************)
LEMMA SeqFacts ==
    ASSUME NEW s, IsSeq(s)
    PROVE  /\ Len(s) \in Nat /\ DOMAIN s = 1..Len(s)
           /\ s = <<>> <=> Len(s) = 0
           /\ s # <<>> => Head(s) = s[1]
BY DEF IsSeq

IsRest(s, t) ==
    IsSeq(t) /\ Len(t) = Len(s) - 1 /\ \A i \in 1..Len(s) - 1 : t[i] = s[i + 1]

LEMMA TailFacts ==
    ASSUME NEW s, IsSeq(s), s # <<>>
    PROVE  IsRest(s, Tail(s))
<1>1. PICK S : s \in Seq(S)
  BY DEF IsSeq
<1>2. Tail(s) \in Seq(S) /\ Len(Tail(s)) = Len(s) - 1 /\ Len(s) \in Nat \ {0}
  BY <1>1
<1>3. \A i \in 1..Len(s) - 1 : Tail(s)[i] = s[i + 1]
  BY <1>1, <1>2
<1>4. QED BY <1>2, <1>3 DEF IsSeq, IsRest

LEMMA IsSeqOver ==
    ASSUME NEW s, IsSeq(s), NEW S, \A i \in 1..Len(s) : s[i] \in S
    PROVE  s \in Seq(S)
<1>1. PICK T : s \in Seq(T)
  BY DEF IsSeq
<1>2. Len(s) \in Nat /\ s \in [1..Len(s) -> T]
  BY <1>1, LenProperties
<1>3. s \in [1..Len(s) -> S]
  BY <1>2
<1>4. QED BY <1>2, <1>3, SeqDef

\* A sequence is one of its own elements, or of any more.
LEMMA IsSeqOverOwn ==
    ASSUME NEW s, IsSeq(s), NEW T
    PROVE  s \in Seq({s[i] : i \in 1..Len(s)} \cup T)
<1>1. \A i \in 1..Len(s) : s[i] \in {s[j] : j \in 1..Len(s)} \cup T
  OBVIOUS
<1> DEFINE U == {s[i] : i \in 1..Len(s)} \cup T
<1> HIDE DEF U
<1>2. QED BY <1>1, IsSeqOver DEF U

IsJoin(s, t, u) ==
    /\ IsSeq(u) /\ Len(u) = Len(s) + Len(t)
    /\ \A i \in 1..Len(s) : u[i] = s[i]
    /\ \A i \in 1..Len(t) : u[Len(s) + i] = t[i]
    /\ \A i \in 1..Len(u) : i \in 1..Len(s) \/ i - Len(s) \in 1..Len(t)

LEMMA JoinFacts ==
    ASSUME NEW s, IsSeq(s), NEW t, IsSeq(t)
    PROVE  IsJoin(s, t, s \o t)
<1> DEFINE U == {s[i] : i \in 1..Len(s)} \cup {t[i] : i \in 1..Len(t)}
<1>1. s \in Seq(U)
  BY IsSeqOverOwn
<1>0. t \in Seq(U)
  <2> DEFINE T == {s[i] : i \in 1..Len(s)}
  <2> HIDE DEF T
  <2>1. t \in Seq({t[i] : i \in 1..Len(t)} \cup T)
    BY IsSeqOverOwn
  <2>2. {t[i] : i \in 1..Len(t)} \cup T = U
    BY DEF T
  <2>3. QED BY <2>1, <2>2
<1> HIDE DEF U
<1>2. s \o t \in Seq(U) /\ Len(s \o t) = Len(s) + Len(t) /\ Len(s) \in Nat /\ Len(t) \in Nat
  BY <1>0, <1>1
<1>3. \A i \in 1..Len(s) : (s \o t)[i] = s[i]
  BY <1>0, <1>1, <1>2
<1>4. \A i \in 1..Len(t) : (s \o t)[Len(s) + i] = t[i]
  BY <1>0, <1>1, <1>2
<1>5. \A i \in 1..Len(s \o t) : i \in 1..Len(s) \/ i - Len(s) \in 1..Len(t)
  BY <1>2
<1>6. QED BY <1>2, <1>3, <1>4, <1>5 DEF IsSeq, IsJoin

LEMMA OneFacts ==
    ASSUME NEW e
    PROVE  IsSeq(<<e>>) /\ Len(<<e>>) = 1 /\ <<e>>[1] = e /\ <<e>> # <<>>
<1>1. <<e>> \in Seq({e})
  OBVIOUS
<1>2. QED BY <1>1 DEF IsSeq

LEMMA LastOne ==
    ASSUME NEW s, IsSeq(s), Len(s) = 1
    PROVE  Head(s) = s[1] /\ Tail(s) = <<>>
<1>1. s # <<>>
  <2>1. Len(s) # 0
    OBVIOUS
  <2>2. QED BY <2>1, SeqFacts, Zenon
<1>2. PICK t : t = Tail(s)
  OBVIOUS
<1>3. IsSeq(t) /\ Len(t) = Len(s) - 1
  BY <1>1, <1>2, TailFacts DEF IsRest
<1>4. Len(t) = 0
  BY <1>3
<1>5. QED BY <1>1, <1>2, <1>3, <1>4, SeqFacts, Zenon

LEMMA NoneFacts == IsSeq(<<>>) /\ Len(<<>>) = 0
<1>1. <<>> \in Seq({})
  OBVIOUS
<1>2. QED BY <1>1 DEF IsSeq

LEMMA MadeFacts ==
    ASSUME NEW n \in Nat, NEW s, s = [i \in 1..n |-> s[i]]
    PROVE  IsSeq(s) /\ Len(s) = n
<1>1. s \in [1..n -> {s[i] : i \in 1..n}]
  OBVIOUS
<1>2. s \in Seq({s[i] : i \in 1..n}) /\ Len(s) = n
  BY <1>1
<1>3. QED BY <1>2 DEF IsSeq

WithFirst(s, e, t) ==
    /\ IsSeq(t) /\ Len(t) = Len(s) /\ t[1] = e
    /\ \A i \in 1..Len(s) : i > 1 => t[i] = s[i]

LEMMA FirstFacts ==
    ASSUME NEW s, IsSeq(s), s # <<>>, NEW e
    PROVE  WithFirst(s, e, [s EXCEPT ![1] = e])
<1> DEFINE t == [s EXCEPT ![1] = e]  U == {s[i] : i \in 1..Len(s)} \cup {e}
<1>1. s \in Seq(U)
  BY IsSeqOverOwn
<1>2. e \in U
  OBVIOUS
<1> HIDE DEF U
<1>3. t \in Seq(U) /\ Len(t) = Len(s) /\ 1 \in 1..Len(s) /\ DOMAIN s = 1..Len(s)
  BY <1>1, <1>2
<1>4. t[1] = e /\ \A i \in 1..Len(s) : i > 1 => t[i] = s[i]
  BY <1>3
<1>5. QED BY <1>3, <1>4 DEF IsSeq, WithFirst

LEMMA LeastNat ==
    ASSUME NEW T \in SUBSET Nat, T # {}
    PROVE  \E x \in T : \A y \in T : x <= y
<1> DEFINE R == OpToRel(<, Nat)
<1>1. IsWellFoundedOn(R, Nat)
  BY NatLessThanWellFounded
<1>2. \A x, y \in Nat : <<y, x>> \in R <=> y < x
  BY DEF OpToRel
<1> HIDE DEF R
<1>3. PICK x \in T : \A y \in T : ~ (<<y, x>> \in R)
  BY <1>1, WFMin
<1>4. ASSUME NEW y \in T PROVE x <= y
  <2>1. x \in Nat /\ y \in Nat
    OBVIOUS
  <2>2. ~ (y < x)
    BY <1>2, <1>3, <2>1
  <2>3. QED BY <2>1, <2>2
<1>5. QED BY <1>4

LEMMA GreatestOf ==
    ASSUME NEW n \in Nat, NEW T \in SUBSET (1..n), T # {}
    PROVE  \E x \in T : \A y \in T : y <= x
<1> DEFINE U == {n - x : x \in T}
<1>1. U \in SUBSET Nat /\ U # {}
  <2>1. \A x \in T : n - x \in Nat
    OBVIOUS
  <2>2. QED BY <2>1
<1>2. PICK u \in U : \A v \in U : u <= v
  BY <1>1, LeastNat
<1>3. PICK x \in T : u = n - x
  OBVIOUS
<1>4. ASSUME NEW y \in T PROVE y <= x
  <2>1. n - x <= n - y
    BY <1>2, <1>3
  <2>2. QED BY <2>1
<1>5. QED BY <1>4

\* There is always another number for a socket, which is none of those in use.
LEMMA SocketFacts ==
    ASSUME IsSeq(attempts)
    PROVE  NewSocket \in Nat \ {0}
<1> DEFINE n == Len(attempts)
           I == 1..(n + 2)
           used == [j \in 1..(n + 1) |-> IF j = n + 1 THEN sd ELSE attempts[j].sd]
           U == {used[j] : j \in 1..(n + 1)}
<1>1. n \in Nat /\ DOMAIN attempts = 1..n
  BY SeqFacts
<1>2. sd \in U /\ \A i \in 1..n : attempts[i].sd \in U
  <2> HIDE DEF n
  <2>1. used[n + 1] = sd
    BY <1>1
  <2>2. \A i \in 1..n : i \in 1..(n + 1) /\ used[i] = attempts[i].sd
    BY <1>1
  <2>3. QED BY <1>1, <2>1, <2>2
<1>3. \E m \in I : m \notin U
  <2> SUFFICES ASSUME I \subseteq U PROVE FALSE
    OBVIOUS
  <2>1. IsFiniteSet(1..(n + 1)) /\ Cardinality(1..(n + 1)) = n + 1
    BY <1>1, FS_Interval
  <2>2. used \in Surjection(1..(n + 1), U)
    BY DEF Surjection
  <2>3. IsFiniteSet(U) /\ Cardinality(U) <= n + 1
    <3> HIDE DEF U, used, n
    <3>1. QED BY <2>1, <2>2, FS_Surjection
  <2>4. Cardinality(I) = n + 2 /\ IsFiniteSet(I)
    BY <1>1, FS_Interval
  <2> HIDE DEF U, I, used, n
  <2>5. Cardinality(I) <= Cardinality(U)
    BY <2>3, FS_Subset
  <2>6. Cardinality(U) \in Nat
    BY <2>3, FS_CardinalityType
  <2>7. QED BY <1>1, <2>3, <2>4, <2>5, <2>6
<1>4. PICK m \in I : m \notin U
  BY <1>3
<1> HIDE DEF U, used
<1>5. m # sd /\ \A i \in DOMAIN attempts : attempts[i].sd # m
  BY <1>1, <1>2, <1>4
<1>6. m \in 1..(Len(attempts) + 2)
  OBVIOUS
<1>7. NewSocket \in 1..(Len(attempts) + 2)
  <2> HIDE DEF I, n
  <2>1. QED BY <1>5, <1>6 DEF NewSocket
<1>8. QED BY <1>1, <1>7

-----------------------------------------------------------------------------
(***************************************************************************)
(* Commands, and the answers to them.                                      *)
(***************************************************************************)
LEMMA KindFacts ==
    /\ \A k \in LookupKinds : k \notin ListKinds /\ k \notin StrKinds
    /\ \A k \in ListKinds : k \notin StrKinds
    /\ \A k \in Answers : k \notin {"setmask", "client", "auth", "quit"}
    /\ \A k \in Kinds : k \in Answers \/ k \in {"setmask", "client", "auth", "quit"}
BY DEF LookupKinds, ListKinds, StrKinds, Answers, Cached, Kinds

LEMMA NewCommand ==
    ASSUME NEW kind \in Kinds, NEW arg, kind = "setmask" => arg \in Masks,
           kind = "getdictmask" => arg = Blank, kind = "auth" => arg \in People
    PROVE  /\ IsCommand(Cmd(kind, arg)) /\ Untouched(Cmd(kind, arg))
           /\ Cmd(kind, arg).kind = kind /\ Cmd(kind, arg).arg = arg
BY DEF IsCommand, Untouched, Cmd

\* What becomes of a command while its answer is read.
Heard(c, st, resp, tags) ==
    [kind |-> c.kind, arg |-> c.arg, st |-> st, resp |-> resp, tags |-> tags]

LEMMA HeardFacts ==
    ASSUME NEW c, IsCommand(c), NEW st, NEW resp, NEW tags
    PROVE  LET d == Heard(c, st, resp, tags)
           IN  /\ IsCommand(d) /\ d.kind = c.kind /\ d.arg = c.arg
               /\ d.st = st /\ d.resp = resp /\ d.tags = tags
BY DEF IsCommand, Heard

LEMMA PiecesFacts ==
    ASSUME NEW code, NEW body, NEW tag, Len(body) \in Nat, DOMAIN body = 1..Len(body)
    PROVE  LET s == Pieces(code, body, tag)
           IN  /\ IsSeq(s) /\ Len(s) = Len(body) + 1
               /\ s[1] = Piece("line", code, tag)
               /\ \A i \in 1..Len(body) : s[i + 1] = Piece(body[i][1], body[i][2], tag)
<1> DEFINE r == [i \in DOMAIN body |-> Piece(body[i][1], body[i][2], tag)]
           a == <<Piece("line", code, tag)>>
<1>1. IsSeq(r) /\ Len(r) = Len(body)
  BY MadeFacts
<1>2. IsSeq(a) /\ Len(a) = 1 /\ a[1] = Piece("line", code, tag)
  BY OneFacts
<1>3. \A i \in 1..Len(body) : r[i] = Piece(body[i][1], body[i][2], tag)
  OBVIOUS
<1>4. Pieces(code, body, tag) = a \o r
  BY DEF Pieces
<1> HIDE DEF a, r
<1>5. IsJoin(a, r, Pieces(code, body, tag))
  BY <1>1, <1>2, <1>4, JoinFacts
<1>6. QED BY <1>1, <1>2, <1>3, <1>5 DEF IsJoin

LEMMA NoBody ==
    ASSUME NEW kind, kind \notin Answers, NEW shape
    PROVE  Body(kind, shape) = <<>>
BY DEF Body, Answers, Cached

Reading(run, kind, body, shape, k) ==
    /\ body[k][1] = run[k].how
    /\ IF k < Len(body)
       THEN Onward(kind, run[k], body[k][2]) = [result |-> 2, at |-> run[k + 1]]
       ELSE /\ Onward(kind, run[k], body[k][2]) = Done(run[k])
            /\ run[k].st > 0 /\ run[k].resp = shape

\* A list of n words: the parser counts them.
Counted(k) == [st |-> 1, resp |-> [dicts |-> <<>>, type |-> "none", words |-> k - 1, tree |-> <<>>],
               how |-> "string", left |-> 0, count |-> 0]

LEMMA TextFacts == "text" # Blank /\ "getdictmask" # Blank
BY Zenon DEF Blank

LEMMA CountedFacts ==
    ASSUME NEW kind \in ListKinds, NEW n \in Nat
    PROVE  /\ Counted(1) = Begun
           /\ Onward(kind, Counted(n), "text") = [result |-> 2, at |-> Counted(n + 1)]
           /\ Onward(kind, Counted(n), Blank) = Done(Counted(n))
           /\ Counted(n).how = "string" /\ Counted(n).st = 1
           /\ Counted(n + 1).resp = [NoResp EXCEPT !.words = n]
<1>1. Counted(1) = Begun
  BY DEF Counted, Begun, Go, NoResp
<1>2. Counted(n).how = "string" /\ Counted(n).st = 1
  BY DEF Counted
<1>3. ASSUME NEW value
      PROVE  Onward(kind, Counted(n), value) = parse_wordlist(kind, Counted(n), value)
  <2>1. Onward(kind, Counted(n), value) = parse_command(kind, Counted(n), value)
    BY <1>2 DEF Onward
  <2>2. kind \notin LookupKinds /\ kind \notin StrKinds /\ kind \in ListKinds /\ kind # "quit"
    BY KindFacts DEF ListKinds
  <2>3. parse_command(kind, Counted(n), value) = parse_wordlist(kind, Counted(n), value)
    BY <2>2 DEF parse_command
  <2>4. QED BY <2>1, <2>3
<1>4. [Counted(n).resp EXCEPT !.words = @ + 1] = Counted(n + 1).resp
  BY DEF Counted
<1>5. parse_wordlist(kind, Counted(n), "text") = Go(1, Counted(n + 1).resp, "string", 0)
  BY <1>2, <1>4, TextFacts DEF parse_wordlist
<1>6. Go(1, Counted(n + 1).resp, "string", 0) = [result |-> 2, at |-> Counted(n + 1)]
  BY DEF Go, Counted
<1>7. parse_wordlist(kind, Counted(n), Blank) = Done(Counted(n))
  BY <1>2 DEF parse_wordlist
<1>8. Counted(n + 1).resp = [NoResp EXCEPT !.words = n]
  BY DEF Counted, NoResp
<1>9. QED BY <1>1, <1>2, <1>3, <1>5, <1>6, <1>7, <1>8

\* What closes a list.
Closing == <<<<"string", Blank>>>>

LEMMA ListReadable ==
    ASSUME NEW kind \in ListKinds, NEW n \in Nat, NEW body,
           IsJoin(Texts(n), Closing, body)
    PROVE  \E run : ReadsTo(run, kind, body, [NoResp EXCEPT !.words = n])
<1> DEFINE run == [k \in 1..(n + 1) |-> Counted(k)]
           shape == [NoResp EXCEPT !.words = n]
<1>1. /\ Len(body) = n + 1 /\ IsSeq(body)
      /\ \A i \in 1..n : body[i] = <<"string", "text">>
      /\ body[n + 1] = <<"string", Blank>>
  <2>1. IsSeq(Closing) /\ Len(Closing) = 1 /\ Closing[1] = <<"string", Blank>>
    BY OneFacts DEF Closing
  <2>2. IsSeq(Texts(n)) /\ Len(Texts(n)) = n /\ \A i \in 1..n : Texts(n)[i] = <<"string", "text">>
    BY MadeFacts DEF Texts
  <2>3. QED BY <2>1, <2>2 DEF IsJoin
<1>2. DOMAIN body = 1..Len(body) /\ Len(body) \in Nat \ {0}
  BY <1>1, SeqFacts
<1>3. \A k \in 1..(n + 1) : run[k] = Counted(k)
  OBVIOUS
<1>4. run[1] = Begun
  <2>1. run[1] = Counted(1)
    BY <1>3
  <2>2. QED BY <2>1, CountedFacts
<1> HIDE DEF run, shape
<1>5. ASSUME NEW k \in 1..Len(body) PROVE Reading(run, kind, body, shape, k)
  <2>0. k \in Nat
    BY <1>1
  <2>1. CASE k \in 1..n
    <3>1. k < Len(body) /\ k + 1 \in 1..(n + 1) /\ k \in 1..(n + 1)
      BY <1>1, <2>1
    <3>2. Onward(kind, run[k], "text") = [result |-> 2, at |-> run[k + 1]] /\ run[k].how = "string"
      BY <1>3, <2>0, <3>1, CountedFacts
    <3>3. body[k] = <<"string", "text">>
      BY <1>1, <2>1
    <3>4. QED BY <3>1, <3>2, <3>3 DEF Reading
  <2>2. CASE k = n + 1
    <3>1. k = Len(body) /\ body[k] = <<"string", Blank>> /\ run[k] = Counted(k)
      BY <1>1, <1>3, <2>2
    <3>2. Onward(kind, run[k], Blank) = Done(run[k]) /\ run[k].how = "string" /\ run[k].st = 1
      BY <2>0, <3>1, CountedFacts
    <3>3. run[k].resp = shape
      BY <2>2, <3>1, CountedFacts DEF shape
    <3>4. ~ (k < Len(body))
      BY <1>1, <3>1
    <3>5. QED BY <3>1, <3>2, <3>3, <3>4 DEF Reading
  <2>3. QED BY <1>1, <2>1, <2>2
<1>6. ReadsTo(run, kind, body, shape)
  BY <1>2, <1>4, <1>5 DEF ReadsTo, Reading
<1>7. QED BY <1>6 DEF shape

\* The parser can read every answer by itself.
LEMMA AnswersReadable ==
    ASSUME NEW kind \in Answers, NEW shape \in Shapes(kind)
    PROVE  \E run : ReadsTo(run, kind, Body(kind, shape), shape)
<1>1. CASE kind \in LookupKinds
  BY <1>1, ShapesAssumption DEF Readable
<1>2. CASE kind \in StrKinds
  <2> DEFINE run == [k \in 1..1 |-> Begun]
  <2>1. Body(kind, shape) = [i \in 1..1 |-> <<"string", "text">>]
    BY <1>2, KindFacts DEF Body, Texts
  <2>2. Len(Body(kind, shape)) = 1
    BY <2>1, MadeFacts
  <2>3. shape = NoResp
    BY <1>2, KindFacts, "lookup" \in LookupKinds DEF Shapes, LookupKinds
  <2>4. Onward(kind, Begun, "text") = Done(Begun)
    BY <1>2, KindFacts DEF Onward, Begun, Go, parse_command
  <2>5. Begun.how = "string" /\ Begun.st = 1 /\ Begun.resp = NoResp
    BY DEF Begun, Go
  <2>6. run[1] = Begun
    OBVIOUS
  <2> HIDE DEF run
  <2>7. ReadsTo(run, kind, Body(kind, shape), shape)
    BY <2>1, <2>2, <2>3, <2>4, <2>5, <2>6 DEF ReadsTo
  <2>8. QED BY <2>7
<1>3. CASE kind \in ListKinds
  <2>1. PICK n \in 0..MaxWords : shape = [NoResp EXCEPT !.words = n]
    BY <1>3, KindFacts DEF Shapes, LookupKinds
  <2>2. n \in Nat
    BY MaxWordsAssumption
  <2>3. shape.words = n
    BY <2>1 DEF NoResp
  <2>4. Body(kind, shape) = Texts(n) \o Closing
    BY <1>3, <2>3, KindFacts DEF Body, Closing
  <2>5. IsSeq(Texts(n)) /\ IsSeq(Closing)
    BY <2>2, MadeFacts, OneFacts DEF Texts, Closing
  <2>6. IsJoin(Texts(n), Closing, Body(kind, shape))
    BY <2>4, <2>5, JoinFacts
  <2>7. QED BY <1>3, <2>1, <2>2, <2>6, ListReadable
<1>4. QED BY <1>1, <1>2, <1>3 DEF Answers, Cached

\* What follows the code of an answer.
LEMMA BodyFacts ==
    ASSUME NEW kind, NEW code, NEW shape \in Shapes(kind), NEW body,
           body = IF code = "ok" THEN Body(kind, shape) ELSE <<>>
    PROVE  Len(body) \in Nat /\ DOMAIN body = 1..Len(body)
<1>1. CASE code = "ok" /\ kind \in Answers
  <2>1. PICK run : ReadsTo(run, kind, body, shape)
    BY <1>1, AnswersReadable
  <2>2. QED BY <2>1 DEF ReadsTo
<1>2. CASE ~(code = "ok" /\ kind \in Answers)
  <2>1. body = <<>>
    BY <1>2, NoBody
  <2>2. QED BY <2>1, NoneFacts, SeqFacts
<1>3. QED BY <1>1, <1>2

-----------------------------------------------------------------------------
(***************************************************************************)
(* What parsing one piece comes to.                                        *)
(***************************************************************************)
CutStep == Connected /\ Cut /\ Silent /\ UNCHANGED pools /\ waiting_banner' \in BOOLEAN

BannerStep ==
    /\ Connected /\ waiting_banner /\ waiting_banner' = FALSE
    /\ wire' = Tail(wire) /\ request_command(cmdlist) /\ UNCHANGED <<session, pools>> /\ Silent

\* The first command is another one in its state and answer at most.
FirstMoved ==
    /\ IsSeq(cmdlist') /\ Len(cmdlist') = Len(cmdlist) /\ IsCommand(cmdlist'[1])
    /\ cmdlist'[1].kind = cmdlist[1].kind /\ cmdlist'[1].arg = cmdlist[1].arg
    /\ \A i \in 1..Len(cmdlist) : i > 1 => cmdlist'[i] = cmdlist[i]

MoveStep ==
    /\ Busy /\ requests = <<>> /\ cmdlist # <<>> /\ cmdlist[1].kind \in Answers /\ FirstMoved
    /\ wire # <<>> /\ wire' = Tail(wire) /\ wire' # <<>> /\ wire'[1].tag = wire[1].tag /\ Part'
    /\ Silent
    /\ UNCHANGED <<client, channel, waiting_banner, pools, requests, session, mask, bounds, history>>

\* The command with what was heard of the answer, of which nothing is left.
EndStep(c) ==
    /\ Busy /\ wire # <<>> /\ requests = <<>>
    /\ IsCommand(c) /\ c.kind = cmdlist[1].kind /\ c.arg = cmdlist[1].arg
    /\ \/ c.st = 0 /\ c.kind # "quit" /\ (c.kind = "auth" => wire[1].value = "ok")
       \/ c.st > 0 /\ c.st # 0 /\ c.kind \in Answers /\ c.tags = {wire[1].tag} /\ Exact(Answer(c))
    /\ Answered(c)
    /\ wire' = <<>> /\ request_command(Tail(cmdlist)) /\ UNCHANGED <<waiting_banner, session>>

Outcome == parse_command(cmdlist[1].kind, At(cmdlist[1]), wire[1].value)
HeardNow == Heard(cmdlist[1], Outcome.at.st, Outcome.at.resp, cmdlist[1].tags \cup {wire[1].tag})

LEMMA ParseMeans ==
    ASSUME TypeInv, cmdlist # <<>>, Connected, parse(wire[1])
    PROVE  /\ Outcome.result = 0 => CutStep
           /\ Outcome.result = 1 =>
                 /\ Answered(HeardNow) /\ wire' = Tail(wire) /\ request_command(Tail(cmdlist))
                 /\ UNCHANGED <<waiting_banner, session>>
           /\ Outcome.result = 2 =>
                 /\ cmdlist' = [cmdlist EXCEPT ![1] = HeardNow]
                 /\ reading_type' = Outcome.at.how
                 /\ size_left' = Outcome.at.left /\ size_count' = Outcome.at.count
                 /\ wire' = Tail(wire) /\ Silent
                 /\ UNCHANGED <<client, channel, waiting_banner, pools, requests, session,
                                mask, bounds, history>>
<1>1. Head(cmdlist) = cmdlist[1]
  BY SeqFacts DEF TypeInv
<1>2. CASE Outcome.result = 0
  BY <1>1, <1>2 DEF parse, Outcome, CutStep, disconnect, TypeInv
<1>3. CASE Outcome.result = 1
  <2>1. Outcome.result # 0 /\ Outcome.result # 2
    BY <1>3
  <2>2. /\ Answered(HeardNow) /\ wire' = Tail(wire) /\ request_command(Tail(cmdlist))
        /\ UNCHANGED <<waiting_banner, session>>
    BY <1>1, <2>1, Zenon DEF parse, Outcome, HeardNow, Heard
  <2>3. QED BY <2>1, <2>2
<1>4. CASE Outcome.result = 2
  BY <1>1, <1>4 DEF parse, Outcome, HeardNow, Heard
<1>5. QED BY <1>2, <1>3, <1>4

LEMMA CodeOutcome ==
    ASSUME NEW c, c.kind \in Kinds, NEW at, at.st = 0, NEW code \in Codes(c)
    PROVE  LET next == parse_command(c.kind, at, code)
           IN  \/ c.kind \in Answers /\ code = "ok" /\ next = [result |-> 2, at |-> Begun]
               \/ /\ code = "ok" => c.kind \in {"setmask", "client", "auth"}
                  /\ c.kind # "quit" /\ (c.kind = "auth" => code = "ok")
                  /\ next = Done(at)
               \/ next = Fail(at)
<1> DEFINE next == parse_command(c.kind, at, code)
<1>1. parse_code(c.kind, at, code) = IF code = "ok" THEN [result |-> 2, at |-> Begun]
                                     ELSE IF code = "notset" /\ c.kind \in LookupKinds THEN Done(at)
                                     ELSE Fail(at)
  BY DEF parse_code, Begun, Go
<1>2. CASE c.kind \in LookupKinds
  <2>1. next = parse_dict_result(c.kind, at, code)
    BY <1>2, KindFacts DEF parse_command, LookupKinds
  <2>2. parse_dict_result(c.kind, at, code) = parse_code(c.kind, at, code)
    BY DEF parse_dict_result
  <2>3. c.kind # "quit" /\ c.kind # "auth"
    BY <1>2 DEF LookupKinds
  <2>4. QED BY <1>1, <1>2, <2>1, <2>2, <2>3 DEF Answers, Cached
<1>3. CASE c.kind \in ListKinds
  <2>1. next = parse_wordlist(c.kind, at, code)
    BY <1>3, KindFacts DEF parse_command, ListKinds
  <2>2. parse_wordlist(c.kind, at, code) = parse_code(c.kind, at, code)
    BY DEF parse_wordlist
  <2>3. QED BY <1>1, <1>3, <2>1, <2>2, KindFacts DEF Answers, Cached
<1>4. CASE c.kind \in StrKinds
  <2>1. next = parse_code(c.kind, at, code)
    BY <1>4, KindFacts DEF parse_command, StrKinds
  <2>2. QED BY <1>1, <1>4, <2>1, KindFacts DEF Answers, Cached
<1>5. CASE c.kind = "quit"
  <2>1. next = Fail(at)
    BY <1>5 DEF parse_command, LookupKinds, ListKinds, StrKinds
  <2>2. QED BY <2>1
<1>6. CASE c.kind \in {"setmask", "client", "auth"}
  <2>1. next = IF code = "ok" THEN Done(at) ELSE Fail(at)
    BY <1>6 DEF parse_command, LookupKinds, ListKinds, StrKinds
  <2>2. QED BY <1>6, <2>1
<1>7. QED BY <1>2, <1>3, <1>4, <1>5, <1>6 DEF Kinds

\* Where the parser goes on to it is at a place again.
IsPlace(at) ==
    at = [st |-> at.st, resp |-> at.resp, how |-> at.how, left |-> at.left, count |-> at.count]

LEMMA GoFacts ==
    /\ \A st, resp, how, size : Go(st, resp, how, size).result = 2 /\ IsPlace(Go(st, resp, how, size).at)
    /\ \A at : Done(at).result = 1 /\ Done(at).at = at /\ Fail(at).result = 0
BY DEF Go, Done, Fail, IsPlace

LEMMA PlaceKept ==
    ASSUME NEW kind, NEW at, NEW value, parse_command(kind, at, value).result = 2
    PROVE  IsPlace(parse_command(kind, at, value).at)
<1> DEFINE Fine(a) == a.result = 2 => IsPlace(a.at)
<1>1. /\ \A st, resp, how, size : Fine(Go(st, resp, how, size))
      /\ Fine(Done(at)) /\ Fine(Fail(at))
  BY GoFacts
<1> HIDE DEF Fine
<1>2. Fine(parse_code(kind, at, value))
  BY <1>1 DEF parse_code
<1>3. Fine(parse_wordlist(kind, at, value))
  BY <1>1, <1>2 DEF parse_wordlist
<1>4. Fine(parse_dict_result(kind, at, value))
  BY <1>1, <1>2 DEF parse_dict_result
<1>5. Fine(parse_command(kind, at, value))
  BY <1>1, <1>2, <1>3, <1>4 DEF parse_command
<1>6. QED BY <1>5 DEF Fine

\* The next piece is given to the parser, unless a part of what is read by length comes.
LEMMA TurnFacts ==
    ASSUME TypeInv, on_io_in_event, ~waiting_banner
    PROVE  /\ Connected /\ wire # <<>> /\ IsSeq(wire)
           /\ \/ ReadPart
              \/ parse(wire[1]) /\ (reading_type = "size" => size_left = 1)
<1>1. IsSeq(wire) /\ wire # <<>> /\ Connected
  BY DEF TypeInv, on_io_in_event
<1>2. Head(wire) = wire[1]
  BY <1>1, SeqFacts
<1>3. QED BY <1>1, <1>2 DEF on_io_in_event, parse_banner

LEMMA WholeParsed ==
    ASSUME TypeInv, LockInv, ~waiting_banner, cmdlist # <<>>, requests = <<>>, Whole, on_io_in_event
    PROVE  CutStep \/ MoveStep \/ \E c : EndStep(c)
<1> DEFINE c == cmdlist[1]  tag == wire[1].tag
<1>1. PICK code \in Codes(c), shape \in Shapes(c.kind) :
         /\ wire = Pieces(code, IF code = "ok" THEN Body(c.kind, shape) ELSE <<>>, tag)
         /\ Of(c, shape)
  BY DEF Whole
<1>2. IsCommand(c) /\ c.kind \in Kinds /\ IsSeq(cmdlist) /\ Len(cmdlist) \in Nat \ {0}
  BY SeqFacts DEF TypeInv, IsCommand
<1>3. Untouched(c) /\ reading_type = "line"
  BY DEF Whole
<1>4. Connected /\ wire # <<>> /\ IsSeq(wire) /\ parse(wire[1]) /\ Busy
  BY <1>3, TurnFacts DEF ReadPart, Busy
<1>4a. PICK body : body = IF code = "ok" THEN Body(c.kind, shape) ELSE <<>>
  OBVIOUS
<1>5. c.kind \in Answers /\ code = "ok" =>
         \E run : ReadsTo(run, c.kind, body, shape)
  BY <1>4a, AnswersReadable
<1>6. ~(c.kind \in Answers /\ code = "ok") => body = <<>>
  BY <1>4a, NoBody
<1>7. Len(body) \in Nat /\ DOMAIN body = 1..Len(body)
  BY <1>4a, BodyFacts
<1>8. wire = Pieces(code, body, tag)
  BY <1>1, <1>4a
<1>9. /\ Len(wire) = Len(body) + 1 /\ wire[1] = Piece("line", code, tag)
      /\ \A i \in 1..Len(body) : wire[i + 1] = Piece(body[i][1], body[i][2], tag)
  BY <1>7, <1>8, PiecesFacts
<1>10. wire[1].value = code /\ At(c).st = 0
  BY <1>3, <1>9 DEF Piece, At, Untouched
<1>11. \/ c.kind \in Answers /\ code = "ok" /\ Outcome = [result |-> 2, at |-> Begun]
       \/ /\ code = "ok" => c.kind \in {"setmask", "client", "auth"}
          /\ c.kind # "quit" /\ (c.kind = "auth" => code = "ok")
          /\ Outcome = Done(At(c))
       \/ Outcome = Fail(At(c))
  BY <1>2, <1>10, CodeOutcome DEF Outcome
<1>12. IsSeq(Tail(wire)) /\ Len(Tail(wire)) = Len(body)
       /\ \A i \in 1..Len(body) : Tail(wire)[i] = Piece(body[i][1], body[i][2], tag)
  <2>1. IsSeq(Tail(wire)) /\ Len(Tail(wire)) = Len(wire) - 1
        /\ \A i \in 1..Len(wire) - 1 : Tail(wire)[i] = wire[i + 1]
    BY <1>4, TailFacts DEF IsRest
  <2>2. Len(wire) - 1 = Len(body)
    BY <1>7, <1>9
  <2>3. QED BY <1>9, <2>1, <2>2
<1>13. CASE Outcome = Fail(At(c))
  BY <1>4, <1>13, GoFacts, ParseMeans
<1>14. CASE /\ code = "ok" => c.kind \in {"setmask", "client", "auth"}
            /\ c.kind # "quit" /\ (c.kind = "auth" => code = "ok")
            /\ Outcome = Done(At(c))
  <2>1. body = <<>>
    BY <1>6, <1>14, KindFacts
  <2>2. Tail(wire) = <<>>
    BY <1>12, <2>1, NoneFacts, SeqFacts
  <2>3. Outcome.result = 1 /\ Outcome.at = At(c)
    BY <1>14, GoFacts
  <2>4. /\ Answered(HeardNow) /\ wire' = Tail(wire) /\ request_command(Tail(cmdlist))
        /\ UNCHANGED <<waiting_banner, session>>
    BY <1>4, <2>3, ParseMeans
  <2>5. /\ IsCommand(HeardNow) /\ HeardNow.kind = c.kind /\ HeardNow.arg = c.arg
        /\ HeardNow.st = 0
    BY <1>2, <1>10, <2>3, HeardFacts DEF HeardNow
  <2>6. EndStep(HeardNow)
    BY <1>4, <1>10, <1>14, <2>2, <2>4, <2>5 DEF EndStep
  <2>7. QED BY <2>6
<1>15. CASE c.kind \in Answers /\ code = "ok" /\ Outcome = [result |-> 2, at |-> Begun]
  <2>1. PICK run : ReadsTo(run, c.kind, body, shape)
    BY <1>5, <1>15
  <2>2. /\ cmdlist' = [cmdlist EXCEPT ![1] = HeardNow]
        /\ reading_type' = Begun.how
        /\ size_left' = Begun.left /\ size_count' = Begun.count
        /\ wire' = Tail(wire) /\ Silent
        /\ UNCHANGED <<client, channel, waiting_banner, pools, requests, session,
                       mask, bounds, history>>
    BY <1>4, <1>15, ParseMeans
  <2>3. HeardNow = Heard(c, Begun.st, Begun.resp, {tag})
    BY <1>3, <1>15 DEF HeardNow, Untouched
  <2>4. /\ IsCommand(HeardNow) /\ HeardNow.kind = c.kind /\ HeardNow.arg = c.arg
        /\ HeardNow.st = Begun.st /\ HeardNow.resp = Begun.resp /\ HeardNow.tags = {tag}
    BY <1>2, <2>3, HeardFacts
  <2>5. IsSeq(cmdlist') /\ Len(cmdlist') = Len(cmdlist) /\ cmdlist'[1] = HeardNow
        /\ \A i \in 1..Len(cmdlist) : i > 1 => cmdlist'[i] = cmdlist[i]
    <3>1. WithFirst(cmdlist, HeardNow, cmdlist')
      BY <1>2, <2>2, FirstFacts
    <3>2. QED BY <3>1 DEF WithFirst
  <2>6. Len(body) \in Nat \ {0} /\ run[1] = Begun
    BY <2>1 DEF ReadsTo
  <2>7. /\ Len(wire') = Len(body) - 1 + 1 /\ wire' # <<>>
        /\ wire'[1].tag = tag
        /\ \A i \in 1..Len(wire') :
              wire'[i] = Piece(body[1 + i - 1][1], body[1 + i - 1][2], wire'[1].tag)
    <3>1. wire' # <<>> /\ Len(wire') = Len(body)
      BY <1>12, <2>2, <2>6, SeqFacts
    <3>2. wire'[1].tag = tag
      <4>1. wire'[1] = Piece(body[1][1], body[1][2], tag)
        BY <1>12, <2>2, <2>6
      <4>2. QED BY <4>1 DEF Piece
    <3>3. \A i \in 1..Len(wire') : 1 + i - 1 = i /\ i \in 1..Len(body)
      BY <2>6, <3>1
    <3>4. QED BY <1>12, <2>2, <2>6, <3>1, <3>2, <3>3
  <2>8. run[1] = [st |-> HeardNow.st, resp |-> HeardNow.resp, how |-> reading_type',
                  left |-> size_left', count |-> size_count']
    BY <2>2, <2>4, <2>6, GoFacts DEF IsPlace, Begun
  <2>9. Key(HeardNow) = Key(c)
    BY <2>4 DEF Key
  <2>10. PartFrom(cmdlist[1], shape, run, body, 1)'
    <3>1. ReadsTo(run, cmdlist'[1].kind, body, shape)
      BY <2>1, <2>4, <2>5
    <3>2. wire'[1].tag.key = Key(cmdlist'[1]) /\ wire'[1].tag.shape = shape
      BY <1>1, <2>5, <2>7, <2>9 DEF Of
    <3>3. cmdlist'[1].tags = {wire'[1].tag} /\ run[1] = At(cmdlist[1])'
      BY <2>4, <2>5, <2>7, <2>8 DEF At
    <3>4. QED BY <2>7, <3>1, <3>2, <3>3 DEF PartFrom, Of, Key
  <2>11. Part'
    <3>1. body = Body(cmdlist'[1].kind, shape) /\ shape \in Shapes(cmdlist'[1].kind)
      BY <1>15, <1>4a, <2>4, <2>5
    <3>2. 1 \in 1..Len(body)
      BY <2>6
    <3>3. QED BY <2>10, <3>1, <3>2 DEF Part
  <2>12. FirstMoved
    BY <2>4, <2>5 DEF FirstMoved
  <2>13. MoveStep
    BY <1>4, <1>15, <2>2, <2>7, <2>11, <2>12 DEF MoveStep
  <2>14. QED BY <2>13
<1>16. QED BY <1>11, <1>13, <1>14, <1>15

LEMMA OneOn ==
    ASSUME NEW n \in Int, NEW m, m = n - 1, NEW k \in Nat, NEW i \in 1..m
    PROVE  i + 1 \in 1..n /\ i \in 1..n - 1 /\ k + (i + 1) - 1 = k + 1 + i - 1
OBVIOUS

\* The parser stands before the next piece again.
LEMMA PartAgain ==
    ASSUME NEW shape, NEW run, NEW body, NEW k \in Nat, ReadsTo(run, cmdlist[1].kind, body, shape),
           PartFrom(cmdlist[1], shape, run, body, k), k < Len(body),
           IsRest(wire, wire'),
           shape \in Shapes(cmdlist[1].kind), body = Body(cmdlist[1].kind, shape),
           cmdlist'[1].kind = cmdlist[1].kind, cmdlist'[1].arg = cmdlist[1].arg,
           cmdlist'[1].tags = {wire[1].tag}, At(cmdlist[1])' = run[k + 1]
    PROVE  Part' /\ wire' # <<>> /\ wire'[1].tag = wire[1].tag
<1>1. Len(body) \in Nat \ {0}
  BY DEF ReadsTo
<1>2. /\ Len(wire) = Len(body) - k + 1
      /\ \A i \in 1..Len(wire) :
            wire[i] = Piece(body[k + i - 1][1], body[k + i - 1][2], wire[1].tag)
      /\ wire[1].tag.key = Key(cmdlist[1]) /\ wire[1].tag.shape = shape
  BY DEF PartFrom, Of
<1>3. /\ IsSeq(wire') /\ Len(wire') = Len(wire) - 1
      /\ \A i \in 1..Len(wire) - 1 : wire'[i] = wire[i + 1]
  BY DEF IsRest
<1>4. Len(wire') = Len(body) - (k + 1) + 1 /\ Len(wire') # 0
  BY <1>1, <1>2, <1>3
<1>5. \A i \in 1..Len(wire') :
         wire'[i] = Piece(body[k + 1 + i - 1][1], body[k + 1 + i - 1][2], wire[1].tag)
  <2>1. ASSUME NEW i \in 1..Len(wire')
        PROVE  i + 1 \in 1..Len(wire) /\ i \in 1..Len(wire) - 1 /\ k + (i + 1) - 1 = k + 1 + i - 1
    <3>1. Len(wire) \in Int
      BY <1>1, <1>2
    <3>2. Len(wire') = Len(wire) - 1
      BY <1>3
    <3>3. QED BY <3>1, <3>2, OneOn
  <2>2. QED BY <1>2, <1>3, <2>1
<1>6. wire'[1].tag = wire[1].tag
  <2>1. 1 \in 1..Len(wire')
    BY <1>1, <1>4
  <2>2. \E x, y : wire'[1] = Piece(x, y, wire[1].tag)
    BY <1>5, <2>1
  <2>3. \A x, y : Piece(x, y, wire[1].tag).tag = wire[1].tag
    BY DEF Piece
  <2>4. QED BY <2>2, <2>3
<1>7. wire' # <<>>
  BY <1>3, <1>4, SeqFacts
<1>8. Key(cmdlist[1])' = Key(cmdlist[1])
  BY DEF Key
<1>9. PartFrom(cmdlist[1], shape, run, body, k + 1)'
  BY <1>2, <1>4, <1>5, <1>6, <1>8 DEF PartFrom, Of
<1>10. k + 1 \in 1..Len(body)
  BY <1>1
<1>11. QED BY <1>6, <1>7, <1>9, <1>10 DEF Part

LEMMA PartParsed ==
    ASSUME TypeInv, LockInv, ~waiting_banner, cmdlist # <<>>, requests = <<>>, Part, on_io_in_event
    PROVE  CutStep \/ MoveStep \/ \E c : EndStep(c)
<1> DEFINE c == cmdlist[1]  tag == wire[1].tag
<1>0. PICK shape \in Shapes(c.kind) : \E run :
         \E k \in 1..Len(Body(c.kind, shape)) : PartFrom(c, shape, run, Body(c.kind, shape), k)
  BY DEF Part
<1>1. PICK run :
         \E k \in 1..Len(Body(c.kind, shape)) : PartFrom(c, shape, run, Body(c.kind, shape), k)
  BY <1>0
<1>2. PICK body : body = Body(c.kind, shape)
  OBVIOUS
<1>3. PICK k \in 1..Len(body) : PartFrom(c, shape, run, body, k)
  BY <1>1, <1>2
<1>4. /\ ReadsTo(run, c.kind, body, shape) /\ run[k] = At(c) /\ Of(c, shape) /\ c.tags = {tag}
      /\ Len(wire) = Len(body) - k + 1
  BY <1>3 DEF PartFrom
<1>5. Len(body) \in Nat \ {0} /\ k \in Nat
  BY <1>4 DEF ReadsTo
<1>6. Connected /\ wire # <<>> /\ IsSeq(wire) /\ Busy
  BY TurnFacts DEF Busy
<1>7. wire[1].value = body[k][2]
  <2>1. 1 \in 1..Len(wire) /\ k + 1 - 1 = k
    BY <1>4, <1>5
  <2>2. wire[1] = Piece(body[k + 1 - 1][1], body[k + 1 - 1][2], tag)
    BY <1>3, <2>1 DEF PartFrom
  <2>3. QED BY <2>1, <2>2 DEF Piece
<1>8. IsCommand(c) /\ c.kind \in Answers /\ IsSeq(cmdlist)
  <2>1. IsCommand(c) /\ IsSeq(cmdlist)
    BY SeqFacts DEF TypeInv
  <2>2. body # <<>>
    BY <1>5, NoneFacts
  <2>3. QED BY <1>2, <2>1, <2>2, NoBody
<1>9. /\ k < Len(body) => Onward(c.kind, At(c), wire[1].value) = [result |-> 2, at |-> run[k + 1]]
      /\ k = Len(body) => /\ Onward(c.kind, At(c), wire[1].value) = Done(At(c))
                          /\ c.st > 0 /\ c.resp = shape
  <2>1. IF k < Len(body) THEN Onward(c.kind, run[k], body[k][2]) = [result |-> 2, at |-> run[k + 1]]
        ELSE /\ Onward(c.kind, run[k], body[k][2]) = Done(run[k])
             /\ run[k].st > 0 /\ run[k].resp = shape
    BY <1>4 DEF ReadsTo
  <2>2. At(c).st = c.st /\ At(c).resp = c.resp
    BY DEF At
  <2>3. QED BY <1>4, <1>5, <1>7, <2>1, <2>2
<1>10. k < Len(body) \/ k = Len(body)
  BY <1>5
<1>11. CASE ReadPart
  <2>1. Onward(c.kind, At(c), wire[1].value) = [result |-> 2, at |-> [At(c) EXCEPT !.left = size_left - 1]]
    BY <1>11 DEF ReadPart, Onward, At
  <2>2. k < Len(body)
    BY <1>9, <1>10, <2>1, GoFacts
  <2>3. /\ wire' = Tail(wire) /\ Silent /\ cmdlist' = cmdlist
        /\ UNCHANGED <<client, channel, waiting_banner, pools, requests, session, mask, bounds, history>>
        /\ reading_type' = reading_type /\ size_left' = size_left - 1 /\ size_count' = size_count
    BY <1>11 DEF ReadPart
  <2>4. At(cmdlist[1])' = [At(c) EXCEPT !.left = size_left - 1]
    BY <2>3 DEF At
  <2>5. At(cmdlist[1])' = run[k + 1]
    BY <1>9, <2>1, <2>2, <2>4
  <2>6. Part' /\ wire' # <<>> /\ wire'[1].tag = wire[1].tag
    BY <1>2, <1>3, <1>4, <1>5, <1>6, <2>2, <2>3, <2>5, TailFacts, PartAgain
  <2>7. FirstMoved
    BY <1>8, <2>3 DEF FirstMoved
  <2>8. MoveStep
    BY <1>6, <1>8, <2>3, <2>6, <2>7 DEF MoveStep
  <2>9. QED BY <2>8
<1>12. CASE parse(wire[1]) /\ (reading_type = "size" => size_left = 1)
  <2>1. Onward(c.kind, At(c), wire[1].value) = Outcome
    BY <1>12 DEF Onward, At, Outcome
  <2>2. /\ IsCommand(HeardNow) /\ HeardNow.kind = c.kind /\ HeardNow.arg = c.arg
        /\ HeardNow.st = Outcome.at.st /\ HeardNow.resp = Outcome.at.resp /\ HeardNow.tags = {tag}
    BY <1>4, <1>8, HeardFacts DEF HeardNow
  <2>3. CASE k < Len(body)
    <3>1. Outcome.result = 2 /\ Outcome.at = run[k + 1]
      BY <1>9, <2>1, <2>3
    <3>2. /\ cmdlist' = [cmdlist EXCEPT ![1] = HeardNow]
          /\ reading_type' = Outcome.at.how
          /\ size_left' = Outcome.at.left /\ size_count' = Outcome.at.count
          /\ wire' = Tail(wire) /\ Silent
          /\ UNCHANGED <<client, channel, waiting_banner, pools, requests, session,
                         mask, bounds, history>>
      BY <1>6, <1>12, <3>1, ParseMeans
    <3>3. WithFirst(cmdlist, HeardNow, cmdlist')
      BY <1>8, <3>2, FirstFacts
    <3>4. FirstMoved
      BY <2>2, <3>3 DEF FirstMoved, WithFirst
    <3>5. cmdlist'[1] = HeardNow
      BY <3>3 DEF WithFirst
    <3>6. IsPlace(Outcome.at)
      BY <3>1, PlaceKept DEF Outcome
    <3>7. At(cmdlist[1])' = run[k + 1]
      BY <2>2, <3>1, <3>2, <3>5, <3>6 DEF At, IsPlace
    <3>8. Part' /\ wire' # <<>> /\ wire'[1].tag = wire[1].tag
      BY <1>2, <1>3, <1>4, <1>5, <1>6, <2>2, <2>3, <3>2, <3>5, <3>7, TailFacts, PartAgain
    <3>9. MoveStep
      BY <1>6, <1>8, <3>2, <3>4, <3>8 DEF MoveStep
    <3>10. QED BY <3>9
  <2>4. CASE k = Len(body)
    <3>1. Outcome = Done(At(c)) /\ c.st > 0 /\ c.resp = shape
      BY <1>9, <2>1, <2>4
    <3>2. Outcome.result = 1 /\ Outcome.at = At(c)
      BY <3>1, GoFacts
    <3>3. /\ Answered(HeardNow) /\ wire' = Tail(wire) /\ request_command(Tail(cmdlist))
          /\ UNCHANGED <<waiting_banner, session>>
      BY <1>6, <1>12, <3>2, ParseMeans
    <3>4. HeardNow.st = c.st /\ HeardNow.resp = shape
      BY <2>2, <3>1, <3>2 DEF At
    <3>5. Tail(wire) = <<>>
      <4>1. IsSeq(Tail(wire)) /\ Len(Tail(wire)) = Len(wire) - 1
        BY <1>6, TailFacts DEF IsRest
      <4>2. Len(wire) - 1 = 0
        BY <1>4, <1>5, <2>4
      <4>3. QED BY <4>1, <4>2, SeqFacts
    <3>6. Exact(Answer(HeardNow))
      <4>1. Answer(HeardNow) = [key |-> Key(c), got |-> shape, tags |-> {tag}]
        BY <2>2, <3>4 DEF Answer, Key
      <4>2. tag.key = Key(c) /\ tag.shape = shape
        BY <1>4 DEF Of
      <4>3. QED BY <4>1, <4>2 DEF Exact
    <3>7. HeardNow.st > 0 /\ HeardNow.st # 0
      BY <3>1, <3>4
    <3>8. EndStep(HeardNow)
      BY <1>6, <1>8, <2>2, <3>3, <3>5, <3>6, <3>7 DEF EndStep
    <3>9. QED BY <3>8
  <2>5. QED BY <1>10, <2>3, <2>4
<1>13. QED BY <1>11, <1>12, TurnFacts

LEMMA ParseCases ==
    ASSUME TypeInv, LockInv, on_io_in_event
    PROVE  CutStep \/ BannerStep \/ MoveStep \/ \E c : EndStep(c)
<1>1. Connected /\ wire # <<>> /\ IsSeq(wire) /\ Head(wire) = wire[1]
  BY SeqFacts DEF on_io_in_event, TypeInv
<1>2. CASE waiting_banner
  <2>1. reading_type = "line"
    BY <1>1, <1>2 DEF LockInv
  <2>2. parse_banner(wire[1])
    BY <1>1, <1>2, <2>1 DEF on_io_in_event, ReadPart, parse
  <2>3. CASE wire[1].value # "hello"
    BY <1>1, <2>2, <2>3 DEF parse_banner, CutStep
  <2>4. CASE wire[1].value = "hello"
    BY <1>1, <2>2, <2>4 DEF parse_banner, BannerStep
  <2>5. QED BY <2>3, <2>4
<1>3. CASE ~waiting_banner
  <2>1. cmdlist # <<>> /\ requests = <<>> /\ (Whole \/ Part)
    BY <1>1, <1>3 DEF LockInv, Busy, Asked, Answering
  <2>2. QED BY <1>3, <2>1, WholeParsed, PartParsed
<1>4. QED BY <1>2, <1>3

-----------------------------------------------------------------------------
(***************************************************************************)
(* The calls of the program.                                               *)
(***************************************************************************)
\* Nothing of the exchange with the server changes, though other commands may wait.
Still ==
    /\ UNCHANGED <<channel, reading_type, size_left, size_count, requests, wire>>
    /\ Connected => waiting_banner' = waiting_banner
    /\ Busy => cmdlist' # <<>> /\ cmdlist'[1] = cmdlist[1]
    /\ \A i \in 1..Len(cmdlist') : i > 1 \/ ~Busy => Untouched(cmdlist'[i])

LEMMA StillFacts ==
    ASSUME LockInv, UNCHANGED <<reader, cmdlist, requests, wire>>
    PROVE  Still
BY DEF LockInv, Still, Busy, reader

LEMMA LockStill ==
    ASSUME LockInv, Still
    PROVE  LockInv' /\ Busy' = Busy /\ Connected' = Connected
<1>1. /\ channel' = channel /\ reading_type' = reading_type
      /\ size_left' = size_left /\ size_count' = size_count
      /\ requests' = requests /\ wire' = wire
  BY DEF Still
<1>2. Connected' = Connected /\ Busy' = Busy
  BY DEF Still, Connected, Busy
<1>3. CASE Busy
  <2>0. cmdlist'[1] = cmdlist[1] /\ cmdlist' # <<>>
    BY <1>3 DEF Still
  <2>1. At(cmdlist[1])' = At(cmdlist[1])
    BY <1>1, <2>0 DEF At
  <2>2. \A shape, run, body, k : PartFrom(cmdlist[1], shape, run, body, k)'
                                   = PartFrom(cmdlist[1], shape, run, body, k)
    BY <1>1, <2>0, <2>1 DEF PartFrom, Of
  <2>3. Part' = Part
    BY <2>0, <2>2 DEF Part
  <2>4. Whole' = Whole
    BY <1>1, <2>0 DEF Whole, Of, Untouched
  <2>5. Answering' = Answering
    BY <1>1, <2>3, <2>4 DEF Answering
  <2>6. Asked' = Asked
    BY <1>1, <2>0 DEF Asked, Untouched
  <2>7. \A i \in 1..Len(cmdlist') : i > 1 => Untouched(cmdlist'[i])
    BY <1>3 DEF Still
  <2>8. QED BY <1>2, <1>3, <2>0, <2>5, <2>6, <2>7 DEF LockInv, Busy, Untouched
<1>4. CASE ~Busy
  <2>1. \A i \in 1..Len(cmdlist') : Untouched(cmdlist'[i])
    BY <1>4 DEF Still
  <2>2. QED BY <1>1, <1>2, <1>4, <2>1 DEF LockInv, Still, Untouched, Busy
<1>5. QED BY <1>2, <1>3, <1>4

\* A change of the mask is under way, in words of the exchange.
LEMMA UnsureFacts ==
    ASSUME TypeInv
    PROVE  Unsure <=> (Busy /\ cmdlist # <<>> /\ cmdlist[1].kind = "setmask")
<1>1. cmdlist # <<>> => Head(cmdlist) = cmdlist[1]
  BY SeqFacts DEF TypeInv
<1>2. QED BY <1>1 DEF Unsure, Busy

LEMMA UnsureNext ==
    ASSUME TypeInv'
    PROVE  Unsure' <=> (Busy' /\ cmdlist' # <<>> /\ cmdlist'[1].kind = "setmask")
<1>1. cmdlist' # <<>> => Head(cmdlist') = cmdlist'[1]
  BY SeqFacts DEF TypeInv
<1>2. QED BY <1>1 DEF Unsure, Busy

LEMMA FreshKept ==
    ASSUME FreshInv, UNCHANGED <<host, user, mask, lookups, strs>>,
           ~moved' /\ ~doubt' /\ ~orphaned' =>
              /\ ~moved /\ ~doubt /\ ~orphaned /\ (Unsure => Unsure')
              /\ Busy' /\ wire' # <<>> /\ cmdlist'[1].kind \in Cached =>
                    Busy /\ wire # <<>> /\ cmdlist[1].kind \in Cached /\ wire'[1].tag = wire[1].tag
    PROVE  FreshInv'
<1> SUFFICES ASSUME ~moved' /\ ~doubt' /\ ~orphaned'
             PROVE  /\ ~Unsure' => /\ \A i \in 1..LookupPool : Current(lookups[i])'
                                   /\ \A i \in 1..StrPool :
                                        strs'[i].key[1] = "getdictmask" => Current(strs[i])'
                    /\ Busy' /\ wire' # <<>> /\ cmdlist'[1].kind \in Cached =>
                          InForceNow(wire[1].tag)'
  BY DEF FreshInv
<1>1. ~moved /\ ~doubt /\ ~orphaned
  OBVIOUS
<1>2. host' = host /\ user' = user /\ mask' = mask /\ lookups' = lookups /\ strs' = strs
  OBVIOUS
<1>3. ~Unsure' => /\ \A i \in 1..LookupPool : Current(lookups[i])
                  /\ \A i \in 1..StrPool :
                       strs[i].key[1] = "getdictmask" => Current(strs[i])
  BY <1>1 DEF FreshInv
<1>5. (\A i : Current(lookups[i])' = Current(lookups[i])) /\ (\A i : Current(strs[i])' = Current(strs[i]))
  BY <1>2 DEF Current
<1>6. Busy' /\ wire' # <<>> /\ cmdlist'[1].kind \in Cached => InForceNow(wire[1].tag) /\ wire'[1].tag = wire[1].tag
  BY <1>1 DEF FreshInv
<1>7. wire'[1].tag = wire[1].tag => InForceNow(wire[1].tag)' = InForceNow(wire[1].tag)
  BY <1>2 DEF InForceNow
<1>8. QED BY <1>2, <1>3, <1>5, <1>6, <1>7

LEMMA PoolsStill ==
    ASSUME PoolInv, UNCHANGED pools
    PROVE  PoolInv'
BY DEF PoolInv, pools

LEMMA FreeFacts == IsEntry(Free) /\ Current(Free) /\ Free.key[1] # "getdictmask" /\ Free.tags = {}
<1>1. Free.tags = {} /\ Free.key = <<Blank, Blank>>
  BY DEF Free
<1>2. Free.key[1] = Blank
  BY <1>1
<1>3. QED BY <1>1, <1>2, TextFacts DEF IsEntry, Current

LEMMA PoolsEmptied ==
    ASSUME PoolInv, CleanAll
    PROVE  /\ PoolInv'
           /\ \A i \in 1..LookupPool : lookups'[i] = Free
           /\ \A i \in 1..StrPool : strs'[i] = Free
<1>1. strs' = [i \in 1..StrPool |-> Free] /\ lookups' = [i \in 1..LookupPool |-> Free]
  BY DEF PoolInv, CleanAll, Emptied
<1>2. strPos' = strPos /\ lookupPos' = lookupPos
  BY DEF CleanAll
<1>3. (\A i \in 1..LookupPool : lookups'[i] = Free) /\ (\A i \in 1..StrPool : strs'[i] = Free)
  BY <1>1
<1>4. QED BY <1>1, <1>2, <1>3, FreeFacts DEF PoolInv

LEMMA SetStep ==
    ASSUME ClientInv, (\E h \in Hosts : set_server(h)) \/ (\E u \in Users : set_auth(u))
    PROVE  ClientInv'
<1>1. /\ CleanAll /\ Silent /\ moved' = (moved \/ ~Idle)
      /\ UNCHANGED <<sa, attempts, session, mask, doubt, orphaned>>
      /\ UNCHANGED <<reader, cmdlist, requests, wire>>
  BY DEF set_server, set_auth, server
<1>2. /\ host' \in Hosts /\ user' \in People
      /\ hostResolved' \in BOOLEAN /\ (hostResolved' => hostResolved /\ host' = host)
  <2>1. host \in Hosts /\ user \in People /\ hostResolved \in BOOLEAN
    BY DEF ClientInv, TypeInv
  <2>2. CASE \E h \in Hosts : set_server(h)
    BY <2>1, <2>2 DEF set_server
  <2>3. CASE \E u \in Users : set_auth(u)
    BY <2>1, <2>3 DEF set_auth, People
  <2>4. QED BY <2>2, <2>3
<1>3. TypeInv'
  BY <1>1, <1>2 DEF ClientInv, TypeInv, reader, IsCommand
<1>4. LockInv'
  BY <1>1, StillFacts, LockStill DEF ClientInv
<1>5. /\ PoolInv'
      /\ \A i \in 1..LookupPool : lookups'[i] = Free
      /\ \A i \in 1..StrPool : strs'[i] = Free
  BY <1>1, PoolsEmptied DEF ClientInv
<1>6. SaidInv'
  BY <1>1 DEF SaidInv, Silent
<1>7. ~moved' => ~moved /\ channel = 0 /\ channel' = 0 /\ attempts' = <<>> /\ attempts = <<>>
                 /\ cmdlist' = <<>> /\ Len(attempts') = 0 /\ Len(cmdlist') = 0
  BY <1>1, NoneFacts DEF Idle, AtRest, Pending, Connected, reader
<1>8. AddressInv'
  BY <1>1, <1>2, <1>7 DEF ClientInv, AddressInv, Connected
<1>9. LoginInv'
  BY <1>7 DEF LoginInv, Connected, Busy
<1>10. FreshInv'
  BY <1>5, <1>7, FreeFacts DEF FreshInv, Current, Busy, Connected
<1>11. QED BY <1>3, <1>4, <1>5, <1>6, <1>8, <1>9, <1>10 DEF ClientInv

\* What a pool answers is one of its entries.
LEMMA GetFacts ==
    ASSUME PoolInv, NEW kind, NEW key, Found(PoolFor(kind), key) # {}
    PROVE  IsEntry(Get(PoolFor(kind), key))
<1> DEFINE pool == PoolFor(kind)  F == Found(pool, key)
<1>1. (pool = strs \/ pool = lookups) /\ StrPool \in Nat /\ LookupPool \in Nat
  BY PoolAssumption DEF PoolFor
<1>2. F \in SUBSET (DOMAIN pool)
  BY DEF Found
<1>3. F \in SUBSET Nat /\ \A i \in F : IsEntry(pool[i])
  <2> HIDE DEF F, pool
  <2>1. CASE pool = strs
    BY <1>1, <1>2, <2>1 DEF PoolInv
  <2>2. CASE pool = lookups
    BY <1>1, <1>2, <2>2 DEF PoolInv
  <2>3. QED BY <1>1, <2>1, <2>2
<1> HIDE DEF F, pool
<1>4. \E i \in F : \A j \in F : i <= j
  BY <1>3, LeastNat DEF F, pool
<1>5. PICK i \in F : Get(pool, key) = pool[i]
  BY <1>4 DEF Get, F
<1>6. QED BY <1>3, <1>5 DEF pool

Hit(c) == {i \in DOMAIN c : InCache(c[i])}

LEMMA HitFacts ==
    ASSUME PoolInv, NEW c, IsSeq(c), Hit(c) # {}
    PROVE  LET last == c[CHOOSE i \in Hit(c) : \A j \in Hit(c) : j <= i]
           IN  IsEntry(Get(PoolFor(last.kind), Key(last)))
<1>1. Len(c) \in Nat /\ DOMAIN c = 1..Len(c)
  BY SeqFacts
<1>2. Hit(c) \in SUBSET (1..Len(c))
  BY <1>1 DEF Hit
<1>3. \E i \in Hit(c) : \A j \in Hit(c) : j <= i
  BY <1>1, <1>2, GreatestOf
<1>4. PICK i \in Hit(c) : i = CHOOSE k \in Hit(c) : \A j \in Hit(c) : j <= k
  BY <1>3
<1>5. Found(PoolFor(c[i].kind), Key(c[i])) # {}
  BY <1>4 DEF Hit, InCache
<1>6. QED BY <1>4, <1>5, GetFacts

\* The commands of a call, and those of a login.
Fresh(c) == IsCommand(c) /\ Untouched(c)

LEMMA CallFacts ==
    ASSUME NEW cmds \in Sends
    PROVE  LET c == [i \in DOMAIN cmds |-> Cmd(cmds[i][1], cmds[i][2])]
           IN  /\ IsSeq(c) /\ DOMAIN c = DOMAIN cmds
               /\ \A i \in DOMAIN c : Fresh(c[i]) /\ c[i].kind \notin {"client", "auth", "quit"}
<1> DEFINE S == LookupKinds \cup StrKinds \cup ListKinds \cup {"setmask"}
           c == [i \in DOMAIN cmds |-> Cmd(cmds[i][1], cmds[i][2])]
<1>1. cmds \in Seq(S \X STRING)
  BY SendsAssumption
<1>2. Len(cmds) \in Nat /\ DOMAIN cmds = 1..Len(cmds) /\ \A i \in 1..Len(cmds) : cmds[i] \in S \X STRING
  <2> HIDE DEF S
  <2>1. QED BY <1>1, LenProperties
<1>3. ASSUME NEW i \in DOMAIN cmds
      PROVE  Fresh(c[i]) /\ c[i].kind \notin {"client", "auth", "quit"}
  <2>1. cmds[i][1] \in S
    BY <1>2
  <2>2. cmds[i][1] \in Kinds /\ cmds[i][1] \notin {"client", "auth", "quit"}
    BY <2>1, KindFacts DEF Kinds, Answers, Cached
  <2>3. /\ cmds[i][1] = "setmask" => cmds[i][2] \in Masks
        /\ cmds[i][1] = "getdictmask" => cmds[i][2] = Blank
    BY SendsAssumption
  <2>4. c[i] = Cmd(cmds[i][1], cmds[i][2])
    OBVIOUS
  <2>5. cmds[i][1] # "auth"
    BY <2>2
  <2>6. QED BY <2>2, <2>3, <2>4, <2>5, NewCommand DEF Fresh
<1>4. IsSeq(c)
  <2>1. c = [i \in 1..Len(cmds) |-> c[i]]
    BY <1>2
  <2> HIDE DEF c
  <2>2. QED BY <1>2, <2>1, MadeFacts
<1>5. QED BY <1>3, <1>4

LEMMA LoginFacts ==
    ASSUME user \in People
    PROVE  /\ IsSeq(Login) /\ Login # <<>>
           /\ \A i \in 1..Len(Login) : /\ Fresh(Login[i]) /\ Login[i].kind \in {"client", "auth"}
                                       /\ Login[i].kind = "auth" => Login[i].arg = user
           /\ user # Blank => \E i \in 1..Len(Login) : Login[i].kind = "auth"
<1> DEFINE a == <<Cmd("client", Blank)>>  b == <<Cmd("auth", user)>>
<1>1. Fresh(Cmd("client", Blank)) /\ Cmd("client", Blank).kind = "client"
  BY NewCommand DEF Fresh, Kinds
<1>2. Fresh(Cmd("auth", user)) /\ Cmd("auth", user).kind = "auth" /\ Cmd("auth", user).arg = user
  BY NewCommand DEF Fresh, Kinds
<1>3. IsSeq(a) /\ Len(a) = 1 /\ a[1] = Cmd("client", Blank) /\ a # <<>>
  BY OneFacts
<1>4. IsSeq(b) /\ Len(b) = 1 /\ b[1] = Cmd("auth", user)
  BY OneFacts
<1>5. CASE user = Blank
  <2>1. Login = a \o <<>>
    BY <1>5 DEF Login
  <2> HIDE DEF a, b
  <2>2. IsJoin(a, <<>>, Login)
    BY <1>3, <2>1, NoneFacts, JoinFacts
  <2>3. Len(Login) = 1 /\ IsSeq(Login) /\ Login[1] = a[1]
    BY <1>3, <2>2, NoneFacts DEF IsJoin
  <2>4. Login # <<>>
    BY <2>3, SeqFacts
  <2>5. QED BY <1>1, <1>3, <1>5, <2>3, <2>4
<1>6. CASE user # Blank
  <2>1. Login = a \o b
    BY <1>6 DEF Login
  <2> HIDE DEF a, b
  <2>2. IsJoin(a, b, Login)
    BY <1>3, <1>4, <2>1, JoinFacts
  <2>3. Len(Login) = 2 /\ IsSeq(Login) /\ Login[1] = a[1] /\ Login[2] = b[1]
    BY <1>3, <1>4, <2>2 DEF IsJoin
  <2>4. Login # <<>>
    <3>1. Len(Login) # 0
      BY <2>3
    <3>2. QED BY <2>3, <3>1, SeqFacts, Zenon
  <2>5. \A i \in 1..Len(Login) : i = 1 \/ i = 2
    BY <2>3
  <2>6. QED BY <1>1, <1>2, <1>3, <1>4, <2>3, <2>4, <2>5
<1>7. QED BY <1>5, <1>6

IsThree(s, t, r, v) ==
    /\ IsSeq(v) /\ Len(v) \in Nat
    /\ \A i \in 1..Len(s) : i \in 1..Len(v) /\ v[i] = s[i]
    /\ \A j \in 1..Len(t) : Len(s) + j \in 1..Len(v) /\ v[Len(s) + j] = t[j]
    /\ \A i \in 1..Len(v) :
          \/ i \in 1..Len(s)
          \/ \E j \in 1..Len(t) : v[i] = t[j]
          \/ (\E j \in 1..Len(r) : v[i] = r[j]) /\ \A j \in 1..Len(t) : Len(s) + j < i
    /\ \A i \in 1..Len(v) : i \notin 1..Len(s) => \A j \in 1..Len(s) : j < i

LEMMA ThreeParts ==
    ASSUME NEW s, IsSeq(s), NEW t, IsSeq(t), NEW r, IsSeq(r)
    PROVE  IsThree(s, t, r, s \o t \o r)
<1>1. IsJoin(s, t, s \o t) /\ IsSeq(s \o t)
  BY JoinFacts DEF IsJoin
<1>2. IsJoin(s \o t, r, s \o t \o r)
  BY <1>1, JoinFacts
<1>3. ASSUME NEW u, NEW v, IsJoin(s, t, u), IsJoin(u, r, v)
      PROVE  IsThree(s, t, r, v)
  <2>1. /\ Len(s) \in Nat /\ Len(t) \in Nat /\ Len(r) \in Nat
        /\ Len(u) = Len(s) + Len(t) /\ Len(v) = Len(u) + Len(r) /\ IsSeq(v)
    BY <1>3, SeqFacts DEF IsJoin
  <2>2. \A i \in 1..Len(s) : i \in 1..Len(v) /\ v[i] = s[i]
    <3>1. \A i \in 1..Len(s) : i \in 1..Len(u) /\ i \in 1..Len(v)
      BY <2>1
    <3>2. QED BY <1>3, <3>1 DEF IsJoin
  <2>3. \A j \in 1..Len(t) : Len(s) + j \in 1..Len(v) /\ v[Len(s) + j] = t[j]
    <3>1. \A j \in 1..Len(t) : Len(s) + j \in 1..Len(u) /\ Len(s) + j \in 1..Len(v)
      BY <2>1
    <3>2. QED BY <1>3, <3>1 DEF IsJoin
  <2>4. ASSUME NEW i \in 1..Len(v), i \notin 1..Len(s)
        PROVE  \/ \E j \in 1..Len(t) : v[i] = t[j]
               \/ (\E j \in 1..Len(r) : v[i] = r[j]) /\ \A j \in 1..Len(t) : Len(s) + j < i
    <3>1. CASE i \in 1..Len(u)
      <4>1. i - Len(s) \in 1..Len(t) /\ Len(s) + (i - Len(s)) = i
        BY <2>1, <2>4, <3>1
      <4>2. v[i] = t[i - Len(s)]
        BY <1>3, <3>1, <4>1 DEF IsJoin
      <4>3. QED BY <4>1, <4>2
    <3>2. CASE i \notin 1..Len(u)
      <4>1. i - Len(u) \in 1..Len(r) /\ Len(u) + (i - Len(u)) = i
        BY <2>1, <3>2
      <4>2. v[i] = r[i - Len(u)]
        BY <1>3, <4>1 DEF IsJoin
      <4>3. \A j \in 1..Len(t) : Len(s) + j < i
        BY <2>1, <3>2
      <4>4. QED BY <4>1, <4>2, <4>3
    <3>3. QED BY <3>1, <3>2
  <2>5. \A i \in 1..Len(v) : i \notin 1..Len(s) => \A j \in 1..Len(s) : j < i
    BY <2>1
  <2>6. Len(v) \in Nat
    BY <2>1
  <2>7. QED BY <2>1, <2>2, <2>3, <2>4, <2>5, <2>6 DEF IsThree
<1>4. QED BY <1>1, <1>2, <1>3

\* What is queued comes behind what waited, and behind a login when there is no connection.
Queued ==
    /\ IsSeq(cmdlist')
    /\ \A i \in 1..Len(cmdlist) : i \in 1..Len(cmdlist') /\ cmdlist'[i] = cmdlist[i]
    /\ \A i \in 1..Len(cmdlist') : i \notin 1..Len(cmdlist) =>
          /\ Fresh(cmdlist'[i]) /\ \A j \in 1..Len(cmdlist) : j < i
          /\ cmdlist'[i].kind = "auth" => cmdlist'[i].arg = user
          /\ ~Connected /\ cmdlist'[i].kind \notin {"client", "auth", "quit"} =>
                user = Blank \/ \E j \in 1..Len(cmdlist') : j < i /\ cmdlist'[j].kind = "auth"
    /\ ~Connected /\ user # Blank => \E j \in 1..Len(cmdlist') : cmdlist'[j].kind = "auth"

LEMMA QueueFacts ==
    ASSUME TypeInv, NEW c, IsSeq(c),
           \A i \in DOMAIN c : Fresh(c[i]) /\ c[i].kind \notin {"client", "auth", "quit"},
           NEW K \in SUBSET DOMAIN c, NEW places \in InOrder(K),
           cmdlist' = cmdlist \o (IF Connected THEN <<>> ELSE Login)
                              \o [n \in DOMAIN places |-> c[places[n]]]
    PROVE  Queued
<1> DEFINE new == [n \in DOMAIN places |-> c[places[n]]]
           L == IF Connected THEN <<>> ELSE Login
<1>1. PICK m \in Nat : places \in [1..m -> K]
  <2>1. PICK m \in 0..Cardinality(K) : places \in [1..m -> K]
    BY DEF InOrder
  <2>2. m \in Nat
    BY <2>1
  <2>3. QED BY <2>1, <2>2
<1>2. IsSeq(new) /\ Len(new) = m
  <2>1. new = [n \in 1..m |-> new[n]]
    BY <1>1
  <2> HIDE DEF new
  <2>2. QED BY <2>1, MadeFacts
<1>3. \A j \in 1..Len(new) : Fresh(new[j]) /\ new[j].kind \notin {"client", "auth", "quit"}
  <2>1. \A j \in 1..m : new[j] = c[places[j]] /\ places[j] \in DOMAIN c
    BY <1>1
  <2> HIDE DEF new
  <2>2. QED BY <1>2, <2>1
<1>4. IsSeq(cmdlist) /\ IsSeq(L)
  BY NoneFacts, LoginFacts DEF TypeInv
<1>5. \A j \in 1..Len(L) : /\ Fresh(L[j]) /\ L[j].kind \in {"client", "auth"}
                           /\ L[j].kind = "auth" => L[j].arg = user
  <2>1. CASE Connected
    BY <2>1, NoneFacts
  <2>2. CASE ~Connected
    BY <2>2, LoginFacts DEF TypeInv
  <2>3. QED BY <2>1, <2>2
<1>6. ~Connected /\ user # Blank => \E j \in 1..Len(L) : L[j].kind = "auth"
  BY LoginFacts DEF TypeInv
<1>7. IsThree(cmdlist, L, new, cmdlist')
  <2>1. cmdlist' = cmdlist \o L \o new
    OBVIOUS
  <2> HIDE DEF L, new
  <2>2. QED BY <1>2, <1>4, <2>1, ThreeParts
<1> HIDE DEF L, new
<1>8. ASSUME NEW i \in 1..Len(cmdlist'), i \notin 1..Len(cmdlist)
      PROVE  /\ Fresh(cmdlist'[i]) /\ \A j \in 1..Len(cmdlist) : j < i
             /\ cmdlist'[i].kind = "auth" => cmdlist'[i].arg = user
             /\ ~Connected /\ cmdlist'[i].kind \notin {"client", "auth", "quit"} =>
                   user = Blank \/ \E j \in 1..Len(cmdlist') : j < i /\ cmdlist'[j].kind = "auth"
  <2>1. \A j \in 1..Len(cmdlist) : j < i
    BY <1>7, <1>8 DEF IsThree
  <2>2. CASE \E j \in 1..Len(L) : cmdlist'[i] = L[j]
    BY <1>5, <2>1, <2>2
  <2>3. CASE (\E j \in 1..Len(new) : cmdlist'[i] = new[j]) /\ \A j \in 1..Len(L) : Len(cmdlist) + j < i
    <3>1. Fresh(cmdlist'[i]) /\ cmdlist'[i].kind # "auth"
      BY <1>3, <2>3
    <3>2. ASSUME ~Connected, user # Blank
          PROVE  \E j \in 1..Len(cmdlist') : j < i /\ cmdlist'[j].kind = "auth"
      <4>1. PICK j \in 1..Len(L) : L[j].kind = "auth"
        BY <1>6, <3>2
      <4>2. Len(cmdlist) + j \in 1..Len(cmdlist') /\ cmdlist'[Len(cmdlist) + j] = L[j]
        BY <1>7, <4>1 DEF IsThree
      <4>3. QED BY <2>3, <4>1, <4>2
    <3>3. QED BY <2>1, <3>1, <3>2
  <2>4. QED BY <1>7, <1>8, <2>2, <2>3 DEF IsThree
<1>9. ASSUME ~Connected, user # Blank
      PROVE  \E j \in 1..Len(cmdlist') : cmdlist'[j].kind = "auth"
  <2>1. PICK j \in 1..Len(L) : L[j].kind = "auth"
    BY <1>6, <1>9
  <2>2. Len(cmdlist) + j \in 1..Len(cmdlist') /\ cmdlist'[Len(cmdlist) + j] = L[j]
    BY <1>7, <2>1 DEF IsThree
  <2>3. QED BY <2>1, <2>2
<1>10. IsSeq(cmdlist') /\ \A i \in 1..Len(cmdlist) : i \in 1..Len(cmdlist') /\ cmdlist'[i] = cmdlist[i]
  BY <1>7 DEF IsThree
<1>11. QED BY <1>8, <1>9, <1>10 DEF Queued

\* A connection is begun to the server that is named.
LEMMA ConnectFacts ==
    ASSUME TypeInv, connect
    PROVE  /\ attempts' \in Seq(Attempt) /\ hostResolved' \in BOOLEAN /\ (hostResolved' => sa' \in Hosts)
           /\ host' = host /\ user' = user
           /\ (\A i \in 1..Len(attempts) : attempts[i].host = host) /\ (hostResolved => sa = host) =>
                 (\A i \in 1..Len(attempts') : attempts'[i].host = host') /\ (hostResolved' => sa' = host')
<1> DEFINE addr == IF hostResolved THEN sa ELSE host
           new == [phase |-> "connect", host |-> addr, sd |-> NewSocket]
           ask == [phase |-> "resolve", host |-> host, sd |-> 0]
<1>1. attempts \in Seq(Attempt) /\ host \in Hosts /\ addr \in Hosts /\ hostResolved \in BOOLEAN
  BY DEF TypeInv
<1>2. NewSocket \in Nat \ {0}
  BY <1>1, SocketFacts DEF IsSeq
<1>3. new \in Attempt /\ ask \in Attempt /\ new.host = addr /\ ask.host = host
  BY <1>1, <1>2 DEF Attempt
<1>4. host' = host /\ user' = user
  BY DEF connect
<1>5. \/ attempts' = Append(attempts, new) /\ hostResolved' = TRUE /\ sa' = addr
      \/ attempts' = Append(attempts, ask) /\ hostResolved' = hostResolved /\ sa' = sa
  BY DEF connect
<1> HIDE DEF new, ask
<1>6. ASSUME NEW e \in Attempt, attempts' = Append(attempts, e)
      PROVE  /\ attempts' \in Seq(Attempt)
             /\ \A i \in 1..Len(attempts') : attempts'[i] = e \/ \E j \in 1..Len(attempts) : attempts'[i] = attempts[j]
  <2>1. Append(attempts, e) \in Seq(Attempt) /\ Len(Append(attempts, e)) = Len(attempts) + 1
    BY <1>1
  <2>2. \A i \in 1..Len(attempts) + 1 : Append(attempts, e)[i] = IF i = Len(attempts) + 1 THEN e ELSE attempts[i]
    BY <1>1
  <2>3. Len(attempts) \in Nat
    BY <1>1
  <2>4. \A i \in 1..Len(attempts) + 1 : i = Len(attempts) + 1 \/ i \in 1..Len(attempts)
    BY <2>3
  <2>5. QED BY <1>6, <2>1, <2>2, <2>4
<1>7. CASE attempts' = Append(attempts, new) /\ hostResolved' = TRUE /\ sa' = addr
  <2>1. /\ attempts' \in Seq(Attempt)
        /\ \A i \in 1..Len(attempts') : attempts'[i] = new \/ \E j \in 1..Len(attempts) : attempts'[i] = attempts[j]
    BY <1>3, <1>6, <1>7
  <2>2. (\A i \in 1..Len(attempts) : attempts[i].host = host) /\ (hostResolved => sa = host) =>
           \A i \in 1..Len(attempts') : attempts'[i].host = host'
    BY <1>3, <1>4, <2>1
  <2>3. QED BY <1>1, <1>4, <1>7, <2>1, <2>2
<1>8. CASE attempts' = Append(attempts, ask) /\ hostResolved' = hostResolved /\ sa' = sa
  <2>1. /\ attempts' \in Seq(Attempt)
        /\ \A i \in 1..Len(attempts') : attempts'[i] = ask \/ \E j \in 1..Len(attempts) : attempts'[i] = attempts[j]
    BY <1>3, <1>6, <1>8
  <2>2. (\A i \in 1..Len(attempts) : attempts[i].host = host) /\ (hostResolved => sa = host) =>
           \A i \in 1..Len(attempts') : attempts'[i].host = host'
    BY <1>3, <1>4, <2>1
  <2>3. QED BY <1>4, <1>8, <2>1, <2>2 DEF TypeInv
<1>9. QED BY <1>5, <1>7, <1>8

\* When nothing changes of the exchange, of what is kept and of who and whom it is for.
LEMMA RestStill ==
    ASSUME ClientInv,
           UNCHANGED <<host, user, reader, cmdlist, requests, wire, session, mask, pools>>,
           UNCHANGED <<moved, doubt, orphaned>>,
           attempts' \in Seq(Attempt), hostResolved' \in BOOLEAN, hostResolved' => sa' \in Hosts,
           (\A i \in 1..Len(attempts) : attempts[i].host = host) /\ (hostResolved => sa = host) =>
              (\A i \in 1..Len(attempts') : attempts'[i].host = host) /\ (hostResolved' => sa' = host)
    PROVE  TypeInv' /\ LockInv' /\ AddressInv' /\ LoginInv' /\ FreshInv' /\ PoolInv'
<1>1. LockInv' /\ Busy' = Busy /\ Connected' = Connected
  BY StillFacts, LockStill DEF ClientInv
<1>2. /\ host' = host /\ user' = user
      /\ cmdlist' = cmdlist /\ wire' = wire /\ session' = session /\ mask' = mask
      /\ waiting_banner' = waiting_banner /\ moved' = moved /\ doubt' = doubt /\ orphaned' = orphaned
      /\ strs' = strs /\ lookups' = lookups /\ channel' = channel
  BY DEF reader, pools
<1>3. TypeInv'
  BY <1>2 DEF ClientInv, TypeInv, IsCommand
<1>4. AddressInv'
  BY <1>1, <1>2 DEF ClientInv, AddressInv
<1>5. LoginInv'
  <2>1. LoggedIn' = LoggedIn /\ (\A i : Auth(i)' = Auth(i)) /\ Auth(1)' = Auth(1)
    BY <1>1, <1>2 DEF LoggedIn, Auth
  <2>2. QED BY <1>1, <1>2, <2>1 DEF ClientInv, LoginInv
<1>6. PoolInv'
  BY PoolsStill DEF ClientInv
<1>7. Unsure' = Unsure
  BY <1>2 DEF Unsure, Connected
<1>8. FreshInv'
  BY <1>1, <1>2, <1>7, FreshKept DEF ClientInv
<1>9. QED BY <1>1, <1>3, <1>4, <1>5, <1>6, <1>8

LEMMA SendStep ==
    ASSUME ClientInv, NEW cmds \in Sends, try_cache_or_send_commands(cmds)
    PROVE  ClientInv'
<1> DEFINE c == [i \in DOMAIN cmds |-> Cmd(cmds[i][1], cmds[i][2])]
           last == c[CHOOSE i \in Hit(c) : \A j \in Hit(c) : j <= i]
<1>1. /\ IsSeq(c) /\ DOMAIN c = DOMAIN cmds
      /\ \A i \in DOMAIN c : Fresh(c[i]) /\ c[i].kind \notin {"client", "auth", "quit"}
  BY CallFacts
<1>2. /\ said' = (IF Hit(c) = {} THEN Free ELSE Get(PoolFor(last.kind), Key(last)))
      /\ \/ UNCHANGED <<client, reader, cmdlist>>
         \/ /\ \E places \in InOrder(DOMAIN c \ Hit(c)) :
                  cmdlist' = cmdlist \o (IF Connected THEN <<>> ELSE Login)
                                     \o [n \in DOMAIN places |-> c[places[n]]]
            /\ IF Connected THEN UNCHANGED <<client, reader>>
               ELSE /\ waiting_banner' = TRUE
                    /\ UNCHANGED <<channel, reading_type, size_left, size_count>>
                    /\ connect
      /\ UNCHANGED <<pools, server, history>>
  <2> HIDE DEF last
  <2>1. QED BY Zenon DEF try_cache_or_send_commands, Hit, last
<1> HIDE DEF c
<1>3. SaidInv'
  <2>1. CASE Hit(c) = {}
    BY <1>2, <2>1 DEF SaidInv
  <2>2. CASE Hit(c) # {}
    <3>1. IsEntry(said')
      BY <1>1, <1>2, <2>2, HitFacts DEF ClientInv
    <3>2. QED BY <3>1 DEF IsEntry, SaidInv
  <2>3. QED BY <2>1, <2>2
<1>4. CASE UNCHANGED <<client, reader, cmdlist>>
  <2>1. attempts' = attempts /\ hostResolved' = hostResolved /\ sa' = sa /\ host' = host /\ user' = user
    BY <1>4 DEF client
  <2>2. attempts' \in Seq(Attempt) /\ hostResolved' \in BOOLEAN /\ (hostResolved' => sa' \in Hosts)
    BY <2>1 DEF ClientInv, TypeInv
  <2>3. UNCHANGED <<reader, cmdlist, requests, wire, session, mask, pools>> /\ UNCHANGED <<moved, doubt, orphaned>>
    BY <1>2, <1>4 DEF server, history
  <2>4. QED BY <1>3, <2>1, <2>2, <2>3, RestStill DEF ClientInv
<1>5. ASSUME NEW places \in InOrder(DOMAIN c \ Hit(c)),
             cmdlist' = cmdlist \o (IF Connected THEN <<>> ELSE Login)
                                \o [n \in DOMAIN places |-> c[places[n]]]
      PROVE  Queued
  <2>1. DOMAIN c \ Hit(c) \in SUBSET DOMAIN c
    OBVIOUS
  <2>2. QED BY <1>1, <1>5, <2>1, QueueFacts DEF ClientInv
<1>6. CASE /\ Queued
           /\ IF Connected THEN UNCHANGED <<client, reader>>
              ELSE /\ waiting_banner' = TRUE
                   /\ UNCHANGED <<channel, reading_type, size_left, size_count>>
                   /\ connect
  <2>1. /\ session' = session /\ mask' = mask /\ requests' = requests /\ wire' = wire
        /\ strs' = strs /\ lookups' = lookups
        /\ moved' = moved /\ doubt' = doubt /\ orphaned' = orphaned
    BY <1>2 DEF server, pools, history
  <2>2. /\ channel' = channel /\ reading_type' = reading_type /\ size_left' = size_left
        /\ size_count' = size_count /\ host' = host /\ user' = user
        /\ (Connected => waiting_banner' = waiting_banner) /\ waiting_banner' \in BOOLEAN
    BY <1>6 DEF reader, client, connect, ClientInv, TypeInv
  <2>3. /\ attempts' \in Seq(Attempt) /\ hostResolved' \in BOOLEAN /\ (hostResolved' => sa' \in Hosts)
        /\ (\A i \in 1..Len(attempts) : attempts[i].host = host) /\ (hostResolved => sa = host) =>
              (\A i \in 1..Len(attempts') : attempts'[i].host = host') /\ (hostResolved' => sa' = host')
    <3>1. CASE Connected
      BY <1>6, <3>1 DEF client, ClientInv, TypeInv
    <3>2. CASE ~Connected
      BY <1>6, <3>2, ConnectFacts DEF ClientInv
    <3>3. QED BY <3>1, <3>2
  <2>4. /\ IsSeq(cmdlist')
        /\ \A i \in 1..Len(cmdlist) : i \in 1..Len(cmdlist') /\ cmdlist'[i] = cmdlist[i]
        /\ \A i \in 1..Len(cmdlist') : i \notin 1..Len(cmdlist) =>
              Fresh(cmdlist'[i]) /\ \A j \in 1..Len(cmdlist) : j < i
    BY <1>6 DEF Queued
  <2>5. TypeInv'
    <3>1. \A i \in 1..Len(cmdlist') : IsCommand(cmdlist'[i])
      BY <2>4 DEF Fresh, ClientInv, TypeInv
    <3>2. QED BY <2>1, <2>2, <2>3, <2>4, <3>1 DEF ClientInv, TypeInv, IsCommand
  <2>6. cmdlist # <<>> => 1 \in 1..Len(cmdlist) /\ cmdlist' # <<>> /\ cmdlist'[1] = cmdlist[1]
    <3>1. cmdlist # <<>> => 1 \in 1..Len(cmdlist)
      BY SeqFacts DEF ClientInv, TypeInv
    <3>2. 1 \in 1..Len(cmdlist') => cmdlist' # <<>>
      BY NoneFacts
    <3>3. QED BY <2>4, <3>1, <3>2
  <2>7. Busy => cmdlist # <<>>
    BY DEF ClientInv, LockInv
  <2>8. Still
    <3>1. \A i \in 1..Len(cmdlist') : i > 1 \/ ~Busy => Untouched(cmdlist'[i])
      BY <2>4 DEF Fresh, ClientInv, LockInv
    <3>2. QED BY <2>1, <2>2, <2>6, <2>7, <3>1 DEF Still
  <2>9. LockInv' /\ Busy' = Busy /\ Connected' = Connected
    BY <2>8, LockStill DEF ClientInv
  <2>10. AddressInv'
    BY <2>1, <2>2, <2>3, <2>9 DEF ClientInv, AddressInv
  <2>11. ASSUME ~moved', ~orphaned' PROVE LoginInv'
    <3>1. LoggedIn' = LoggedIn
      BY <2>1, <2>2, <2>9 DEF LoggedIn
    <3>2. \A i : Auth(i) => Auth(i)'
      BY <2>4 DEF Auth
    <3>3. \A i \in 1..Len(cmdlist') : cmdlist'[i].kind = "auth" => cmdlist'[i].arg = user'
      BY <1>6, <2>1, <2>2, <2>4, <2>11 DEF Queued, ClientInv, LoginInv
    <3>4. Connected' \/ cmdlist' # <<>> => LoggedIn' \/ \E i \in 1..Len(cmdlist') : Auth(i)'
      <4>1. CASE Connected
        <5>1. LoggedIn \/ \E i \in 1..Len(cmdlist) : Auth(i)
          BY <2>1, <2>11, <4>1 DEF ClientInv, LoginInv
        <5>2. QED BY <2>4, <3>1, <3>2, <5>1
      <4>2. CASE ~Connected
        BY <1>6, <3>1, <4>2 DEF Queued, LoggedIn, Auth
      <4>3. QED BY <4>1, <4>2
    <3>5. ASSUME NEW i \in 1..Len(cmdlist'), cmdlist'[i].kind \notin {"client", "auth", "quit"}
          PROVE  LoggedIn' \/ \E j \in 1..Len(cmdlist') : j < i /\ Auth(j)'
      <4>1. CASE i \in 1..Len(cmdlist)
        <5>1. LoggedIn \/ \E j \in 1..Len(cmdlist) : j < i /\ Auth(j)
          BY <2>1, <2>4, <2>11, <3>5, <4>1 DEF ClientInv, LoginInv
        <5>2. QED BY <2>4, <3>1, <3>2, <5>1
      <4>2. CASE i \notin 1..Len(cmdlist) /\ Connected
        <5>1. LoggedIn \/ \E j \in 1..Len(cmdlist) : Auth(j)
          BY <2>1, <2>11, <4>2 DEF ClientInv, LoginInv
        <5>2. \A j \in 1..Len(cmdlist) : j < i /\ j \in 1..Len(cmdlist')
          BY <2>4, <4>2
        <5>3. QED BY <3>1, <3>2, <5>1, <5>2
      <4>3. CASE i \notin 1..Len(cmdlist) /\ ~Connected
        <5>1. user = Blank \/ \E j \in 1..Len(cmdlist') : j < i /\ cmdlist'[j].kind = "auth"
          BY <1>6, <3>5, <4>3 DEF Queued
        <5>2. QED BY <3>1, <4>3, <5>1 DEF LoggedIn, Auth
      <4>4. QED BY <4>1, <4>2, <4>3
    <3>6. Busy' /\ wire' # <<>> /\ Auth(1)' /\ wire'[1].value = "ok" => session'.user = user'
      <4>1. Busy /\ Auth(1)' => Auth(1)
        BY <2>6, <2>7 DEF Auth
      <4>2. QED BY <2>1, <2>2, <2>9, <2>11, <4>1 DEF ClientInv, LoginInv
    <3>7. QED BY <3>3, <3>4, <3>5, <3>6 DEF LoginInv
  <2>12. LoginInv'
    BY <2>11 DEF LoginInv
  <2>13. FreshInv'
    <3>1. Unsure => Unsure'
      BY <2>5, <2>6, <2>9, UnsureFacts, UnsureNext DEF ClientInv
    <3>2. Busy' /\ wire' # <<>> /\ cmdlist'[1].kind \in Cached =>
             Busy /\ wire # <<>> /\ cmdlist[1].kind \in Cached /\ wire'[1].tag = wire[1].tag
      BY <2>1, <2>6, <2>7, <2>9
    <3>3. QED BY <2>1, <2>2, <3>1, <3>2, FreshKept DEF ClientInv
  <2>14. PoolInv'
    BY <1>2, PoolsStill DEF ClientInv
  <2>15. QED BY <1>3, <2>5, <2>9, <2>10, <2>12, <2>13, <2>14 DEF ClientInv
<1>7. QED BY <1>2, <1>4, <1>5, <1>6

-----------------------------------------------------------------------------
(***************************************************************************)
(* The threads.                                                            *)
(***************************************************************************)
LEMMA RemoveFacts ==
    ASSUME NEW S, NEW s \in Seq(S), NEW i \in 1..Len(s)
    PROVE  RemoveAt(s, i) \in Seq(S)
<1>1. SubSeq(s, 1, i - 1) \in Seq(S)
  OBVIOUS
<1>2. SubSeq(s, i + 1, Len(s)) \in Seq(S)
  OBVIOUS
<1>3. QED BY <1>1, <1>2 DEF RemoveAt

\* Some of the attempts, and others to the servers of those they replace.
LEMMA AttemptsOf ==
    ASSUME TypeInv, NEW i \in DOMAIN attempts, NEW a \in Attempt, a.host = attempts[i].host,
           attempts' = RemoveAt(attempts, i) \/ attempts' = [attempts EXCEPT ![i] = a]
    PROVE  /\ attempts' \in Seq(Attempt)
           /\ (\A j \in 1..Len(attempts) : attempts[j].host = host) =>
                 \A j \in 1..Len(attempts') : attempts'[j].host = host
<1>1. attempts \in Seq(Attempt) /\ IsSeq(attempts) /\ i \in 1..Len(attempts)
  BY SeqFacts DEF TypeInv, IsSeq
<1>2. ASSUME NEW T, attempts \in Seq(T), a \in T
      PROVE  attempts' \in Seq(T)
  <2>1. CASE attempts' = RemoveAt(attempts, i)
    <3>1. RemoveAt(attempts, i) \in Seq(T)
      BY <1>1, <1>2, RemoveFacts
    <3>2. QED BY <2>1, <3>1
  <2>2. CASE attempts' = [attempts EXCEPT ![i] = a]
    <3>1. [attempts EXCEPT ![i] = a] \in Seq(T)
      BY <1>1, <1>2, ExceptSeq
    <3>2. QED BY <2>2, <3>1
  <2>3. QED BY <2>1, <2>2
<1>3. attempts' \in Seq(Attempt)
  BY <1>1, <1>2
<1>4. ASSUME \A j \in 1..Len(attempts) : attempts[j].host = host
      PROVE  \A j \in 1..Len(attempts') : attempts'[j].host = host
  <2> DEFINE T == {b \in Attempt : b.host = host}
  <2>1. \A j \in 1..Len(attempts) : attempts[j] \in T
    BY <1>1, <1>4
  <2>2. a \in T
    BY <1>1, <1>4
  <2>3. \A b \in T : b.host = host
    OBVIOUS
  <2> HIDE DEF T
  <2>4. attempts \in Seq(T)
    BY <1>1, <2>1, IsSeqOver
  <2>5. attempts' \in Seq(T)
    BY <1>2, <2>2, <2>4
  <2>6. QED BY <2>3, <2>5, ElementOfSeq
<1>5. QED BY <1>3, <1>4

LEMMA DnsStep ==
    ASSUME ClientInv, NEW i \in DOMAIN attempts, dns_thread(i)
    PROVE  ClientInv'
<1> DEFINE new == [phase |-> "connect", host |-> attempts[i].host, sd |-> NewSocket]
<1>1. /\ attempts \in Seq(Attempt) /\ IsSeq(attempts) /\ i \in 1..Len(attempts)
      /\ attempts[i] \in Attempt
  BY SeqFacts, ElementOfSeq DEF ClientInv, TypeInv, IsSeq
<1>2. new \in Attempt /\ new.host = attempts[i].host
  BY <1>1, SocketFacts DEF Attempt
<1>3. /\ \/ /\ hostResolved' = TRUE /\ sa' = (IF hostResolved THEN sa ELSE attempts[i].host)
            /\ attempts' = [attempts EXCEPT ![i] = new]
         \/ attempts' = RemoveAt(attempts, i) /\ hostResolved' = hostResolved /\ sa' = sa
      /\ UNCHANGED <<host, user, reader, cmdlist, requests, wire, session, mask, pools>>
      /\ UNCHANGED <<moved, doubt, orphaned>> /\ Silent
  BY DEF dns_thread, server, history
<1>4. attempts[i].host \in Hosts
  BY <1>1 DEF Attempt
<1> HIDE DEF new
<1>5. /\ attempts' \in Seq(Attempt)
      /\ (\A j \in 1..Len(attempts) : attempts[j].host = host) =>
            \A j \in 1..Len(attempts') : attempts'[j].host = host
  <2>1. attempts' = RemoveAt(attempts, i) \/ attempts' = [attempts EXCEPT ![i] = new]
    BY <1>3
  <2>2. QED BY <1>2, <2>1, AttemptsOf DEF ClientInv
<1>6. hostResolved' \in BOOLEAN /\ (hostResolved' => sa' \in Hosts)
  <2>1. hostResolved \in BOOLEAN /\ (hostResolved => sa \in Hosts)
    BY DEF ClientInv, TypeInv
  <2>2. CASE hostResolved' = TRUE /\ sa' = (IF hostResolved THEN sa ELSE attempts[i].host)
    BY <1>4, <2>1, <2>2
  <2>3. CASE hostResolved' = hostResolved /\ sa' = sa
    BY <2>1, <2>3
  <2>4. QED BY <1>3, <2>2, <2>3
<1>7. (\A j \in 1..Len(attempts) : attempts[j].host = host) /\ (hostResolved => sa = host) =>
         (\A j \in 1..Len(attempts') : attempts'[j].host = host) /\ (hostResolved' => sa' = host)
  BY <1>1, <1>3, <1>5
<1>8. TypeInv' /\ LockInv' /\ AddressInv' /\ LoginInv' /\ FreshInv' /\ PoolInv'
  BY <1>3, <1>5, <1>6, <1>7, RestStill
<1>9. QED BY <1>3, <1>8 DEF ClientInv, SaidInv, Silent

\* A connection comes up.
UpStep(a) ==
    /\ ~Connected /\ a.sd # 0 /\ a.host \in Hosts
    /\ channel' = a.sd /\ waiting_banner' = TRUE /\ reading_type' = "line"
    /\ session' = [host |-> a.host, user |-> Blank]
    /\ \E code : wire' = <<Piece("line", code, Free)>>
    /\ orphaned' = (orphaned \/ cmdlist = <<>>)
    /\ UNCHANGED <<host, user, hostResolved, sa, cmdlist, requests, mask, pools, moved, doubt>>

LEMMA UpFacts ==
    ASSUME ClientInv, NEW a, UpStep(a), attempts' \in Seq(Attempt), ~moved => a.host = host,
           (\A j \in 1..Len(attempts) : attempts[j].host = host) =>
              \A j \in 1..Len(attempts') : attempts'[j].host = host
    PROVE  TypeInv' /\ LockInv' /\ AddressInv' /\ LoginInv' /\ FreshInv' /\ PoolInv'
<1>1. /\ host' = host /\ user' = user /\ hostResolved' = hostResolved /\ sa' = sa /\ cmdlist' = cmdlist
      /\ requests' = requests /\ mask' = mask /\ moved' = moved /\ doubt' = doubt
      /\ strs' = strs /\ lookups' = lookups
  BY DEF UpStep, pools
<1>2. ~Connected /\ ~Busy /\ Connected' /\ ~Busy' /\ waiting_banner'
  BY DEF UpStep, Connected, Busy
<1>3. IsSeq(wire') /\ Len(wire') = 1 /\ wire'[1].how = "line"
  <2>1. PICK code : wire' = <<Piece("line", code, Free)>>
    BY DEF UpStep
  <2>2. PICK e : e = Piece("line", code, Free)
    OBVIOUS
  <2>3. e.how = "line"
    BY <2>2 DEF Piece
  <2>4. QED BY <2>1, <2>2, <2>3, OneFacts
<1>4. session'.host = a.host /\ session'.user = Blank /\ session' \in [host : Hosts, user : People]
  BY DEF UpStep, People
<1>5. TypeInv'
  <2>1. orphaned' \in BOOLEAN /\ waiting_banner' \in BOOLEAN
    BY DEF UpStep, ClientInv, TypeInv
  <2>2. QED BY <1>1, <1>3, <1>4, <2>1 DEF ClientInv, TypeInv, IsCommand
<1>6. LockInv'
  <2>1. requests' = <<>> /\ reading_type' = "line"
    BY <1>1, <1>2 DEF ClientInv, LockInv, UpStep
  <2>2. \A i \in 1..Len(cmdlist) : Untouched(cmdlist[i])
    BY <1>2 DEF ClientInv, LockInv
  <2>3. \A i \in 1..Len(cmdlist') : Untouched(cmdlist[i])'
    BY <1>1, <2>2 DEF Untouched
  <2>4. QED BY <1>2, <1>3, <2>1, <2>3 DEF LockInv
<1>7. AddressInv'
  BY <1>1, <1>4 DEF ClientInv, AddressInv
<1>8. LoginInv'
  <2>1. ASSUME ~moved', ~orphaned' PROVE ~moved /\ ~orphaned /\ cmdlist # <<>>
    <3>1. moved' = moved /\ orphaned' = (orphaned \/ cmdlist = <<>>)
      BY <1>1 DEF UpStep
    <3>2. QED BY <2>1, <3>1
  <2>2. LoggedIn' = LoggedIn /\ \A i : Auth(i)' = Auth(i)
    BY <1>1, <1>2, <1>4 DEF LoggedIn, Auth
  <2>3. QED BY <1>1, <1>2, <2>1, <2>2 DEF ClientInv, LoginInv
<1>9. FreshInv'
  <2>1. ~Unsure
    BY <1>2 DEF Unsure
  <2>2. ~orphaned' => ~orphaned
    BY DEF UpStep
  <2>3. QED BY <1>1, <1>2, <2>1, <2>2, FreshKept DEF ClientInv
<1>10. PoolInv'
  BY PoolsStill DEF ClientInv, UpStep
<1>11. QED BY <1>5, <1>6, <1>7, <1>8, <1>9, <1>10

LEMMA ConnectedStep ==
    ASSUME ClientInv, NEW i \in DOMAIN attempts, connect_thread(i)
    PROVE  ClientInv'
<1> DEFINE a == attempts[i]
<1>1. /\ attempts \in Seq(Attempt) /\ IsSeq(attempts) /\ i \in 1..Len(attempts) /\ a \in Attempt
  BY SeqFacts, ElementOfSeq DEF ClientInv, TypeInv, IsSeq
<1>2. attempts' = RemoveAt(attempts, i) /\ a.phase = "connect" /\ Silent
  BY DEF connect_thread
<1>3. /\ attempts' \in Seq(Attempt)
      /\ (\A j \in 1..Len(attempts) : attempts[j].host = host) =>
            \A j \in 1..Len(attempts') : attempts'[j].host = host
  BY <1>1, <1>2, AttemptsOf DEF ClientInv
<1>4. \/ UpStep(a)
      \/ /\ UNCHANGED <<host, user, reader, cmdlist, requests, wire, session, mask, pools>>
         /\ UNCHANGED <<moved, doubt, orphaned>> /\ hostResolved' = hostResolved /\ sa' = sa
  <2>1. a.sd # 0 /\ a.host \in Hosts
    BY <1>1, <1>2 DEF Attempt
  <2> HIDE DEF a
  <2>2. QED BY <2>1 DEF connect_thread, UpStep, reader, server, a
<1>5. CASE UpStep(a)
  <2>1. ~moved => a.host = host
    BY <1>1 DEF ClientInv, AddressInv
  <2>2. TypeInv' /\ LockInv' /\ AddressInv' /\ LoginInv' /\ FreshInv' /\ PoolInv'
    BY <1>3, <1>5, <2>1, UpFacts
  <2>3. QED BY <1>2, <2>2 DEF ClientInv, SaidInv, Silent
<1>6. CASE /\ UNCHANGED <<host, user, reader, cmdlist, requests, wire, session, mask, pools>>
           /\ UNCHANGED <<moved, doubt, orphaned>> /\ hostResolved' = hostResolved /\ sa' = sa
  <2>1. hostResolved' \in BOOLEAN /\ (hostResolved' => sa' \in Hosts)
    BY <1>6 DEF ClientInv, TypeInv
  <2>2. TypeInv' /\ LockInv' /\ AddressInv' /\ LoginInv' /\ FreshInv' /\ PoolInv'
    BY <1>3, <1>6, <2>1, RestStill
  <2>3. QED BY <1>2, <2>2 DEF ClientInv, SaidInv, Silent
<1>7. QED BY <1>4, <1>5, <1>6

-----------------------------------------------------------------------------
(***************************************************************************)
(* The end of a connection.                                                *)
(***************************************************************************)
LEMMA AskedFacts ==
    ASSUME TypeInv, LockInv, requests # <<>>
    PROVE  /\ Busy /\ Asked /\ cmdlist # <<>> /\ Head(requests) = cmdlist[1] /\ IsCommand(cmdlist[1])
           /\ Tail(requests) = <<>> /\ wire = <<>>
<1>1. Connected /\ Busy /\ cmdlist # <<>>
  BY DEF LockInv, Busy
<1>2. Asked /\ wire = <<>>
  BY <1>1 DEF LockInv, Answering, Asked
<1>3. Head(requests) = cmdlist[1] /\ Tail(requests) = <<>>
  <2>1. requests = <<cmdlist[1]>>
    BY <1>2 DEF Asked
  <2>2. IsSeq(requests) /\ Len(requests) = 1 /\ requests[1] = cmdlist[1]
    BY <2>1, OneFacts
  <2>3. QED BY <2>2, LastOne
<1>4. IsCommand(cmdlist[1])
  BY <1>1, SeqFacts DEF TypeInv
<1>5. QED BY <1>1, <1>2, <1>3, <1>4

LEMMA MaskFacts ==
    ASSUME TypeInv, NEW m \in Masks, InForce(m)
    PROVE  mask' \in [Hosts -> [People -> Masks]]
BY DEF TypeInv, InForce

LEMMA CutFacts ==
    ASSUME ClientInv, CutStep
    PROVE  ClientInv'
<1>1. /\ cmdlist' = <<>> /\ channel' = 0 /\ requests' = <<>> /\ wire' = <<>>
      /\ doubt' = (doubt \/ Unsure) /\ Silent
      /\ host' = host /\ user' = user /\ hostResolved' = hostResolved /\ sa' = sa
      /\ attempts' = attempts /\ session' = session /\ moved' = moved /\ orphaned' = orphaned
      /\ strs' = strs /\ lookups' = lookups /\ waiting_banner' \in BOOLEAN
  BY DEF CutStep, Cut, pools
<1>2. \/ mask' = mask
      \/ Unsure /\ mask' \in [Hosts -> [People -> Masks]]
  <2>1. CASE requests # <<>> /\ Head(requests).kind = "setmask" /\ InForce(Head(requests).arg)
    <3>1. /\ Busy /\ cmdlist # <<>> /\ Head(requests) = cmdlist[1] /\ IsCommand(cmdlist[1])
      BY <2>1, AskedFacts DEF ClientInv
    <3>2. Head(requests).arg \in Masks
      BY <2>1, <3>1 DEF IsCommand
    <3>3. Unsure
      BY <2>1, <3>1, UnsureFacts DEF ClientInv
    <3>4. QED BY <2>1, <3>2, <3>3, MaskFacts DEF ClientInv
  <2>2. QED BY <2>1 DEF CutStep, Cut
<1>3. ~Connected' /\ ~Busy' /\ Len(cmdlist') = 0
  BY <1>1, NoneFacts DEF Connected, Busy
<1>4. TypeInv'
  <2>1. mask' \in [Hosts -> [People -> Masks]] /\ doubt' \in BOOLEAN
    BY <1>1, <1>2 DEF ClientInv, TypeInv, Unsure, Connected
  <2>2. IsSeq(cmdlist') /\ IsSeq(wire') /\ \A i \in 1..Len(cmdlist') : IsCommand(cmdlist'[i])
    BY <1>1, <1>3, NoneFacts
  <2>3. QED BY <1>1, <2>1, <2>2 DEF ClientInv, TypeInv, IsCommand
<1>5. LockInv'
  BY <1>1, <1>3 DEF LockInv
<1>6. AddressInv'
  BY <1>1, <1>3 DEF ClientInv, AddressInv
<1>7. LoginInv'
  BY <1>1, <1>3 DEF LoginInv
<1>8. FreshInv'
  <2>1. CASE mask' = mask
    BY <1>1, <1>3, <2>1, FreshKept DEF ClientInv
  <2>2. CASE Unsure
    BY <1>1, <2>2 DEF FreshInv
  <2>3. QED BY <1>2, <2>1, <2>2
<1>9. PoolInv'
  BY PoolsStill DEF ClientInv, CutStep
<1>10. SaidInv'
  BY <1>1 DEF SaidInv, Silent
<1>11. QED BY <1>4, <1>5, <1>6, <1>7, <1>8, <1>9, <1>10 DEF ClientInv

-----------------------------------------------------------------------------
(***************************************************************************)
(* The next command is sent.                                               *)
(***************************************************************************)
\* The commands cmds wait behind no other, and whoever is logged in stays it.
LoginOf(cmds, in) ==
    /\ \A i \in 1..Len(cmds) : cmds[i].kind = "auth" => cmds[i].arg = user
    /\ in \/ \E i \in 1..Len(cmds) : cmds[i].kind = "auth"
    /\ \A i \in 1..Len(cmds) :
          cmds[i].kind \notin {"client", "auth", "quit"} =>
             in \/ \E j \in 1..Len(cmds) : j < i /\ cmds[j].kind = "auth"

LEMMA QuitFacts ==
    ASSUME NEW cmds, IsSeq(cmds), \A i \in 1..Len(cmds) : Fresh(cmds[i])
    PROVE  LET q == WithQuit(cmds)
           IN  /\ IsSeq(q) /\ q # <<>> /\ \A i \in 1..Len(q) : Fresh(q[i])
               /\ \A in : LoginOf(cmds, in) => LoginOf(q, in)
<1>1. CASE cmds = <<>>
  <2>1. PICK e : e = Cmd("quit", Blank)
    OBVIOUS
  <2>2. Fresh(e) /\ e.kind = "quit"
    BY <2>1, NewCommand DEF Fresh, Kinds
  <2>3. PICK q : q = <<e>>
    OBVIOUS
  <2>4. IsSeq(q) /\ Len(q) = 1 /\ q[1] = e /\ q # <<>>
    BY <2>3, OneFacts
  <2>5. WithQuit(cmds) = q
    BY <1>1, <2>1, <2>3 DEF WithQuit
  <2>6. ~ \E i \in 1..Len(cmds) : cmds[i].kind = "auth"
    <3>1. Len(cmds) = 0
      BY <1>1, NoneFacts
    <3>2. QED BY <3>1
  <2>7. ASSUME NEW in, LoginOf(cmds, in) PROVE LoginOf(q, in)
    <3>1. in
      BY <2>6, <2>7, Zenon DEF LoginOf
    <3>2. \A i \in 1..Len(q) : q[i].kind = "quit"
      BY <2>2, <2>4
    <3>3. QED BY <3>1, <3>2 DEF LoginOf
  <2>8. \A in : LoginOf(cmds, in) => LoginOf(WithQuit(cmds), in)
    BY <2>5, <2>7, Zenon
  <2>9. \A i \in 1..Len(q) : Fresh(q[i])
    BY <2>2, <2>4
  <2>10. /\ IsSeq(WithQuit(cmds)) /\ WithQuit(cmds) # <<>>
         /\ \A i \in 1..Len(WithQuit(cmds)) : Fresh(WithQuit(cmds)[i])
    BY <2>4, <2>5, <2>9, Zenon
  <2>11. QED BY <2>8, <2>10, Zenon
<1>2. CASE cmds # <<>>
  <2>1. WithQuit(cmds) = cmds
    BY <1>2 DEF WithQuit
  <2>2. QED BY <1>2, <2>1, Zenon
<1>3. QED BY <1>1, <1>2

LEMMA BeginFacts ==
    ASSUME ClientInv, Connected, NEW cmds, IsSeq(cmds), \A i \in 1..Len(cmds) : Fresh(cmds[i]),
           ~moved /\ ~orphaned => LoginOf(cmds, session.user = user),
           request_command(cmds), requests = <<>>, wire' = <<>>, waiting_banner' = FALSE,
           session' = session
    PROVE  /\ TypeInv' /\ LockInv' /\ AddressInv' /\ LoginInv'
           /\ UNCHANGED <<host, user, mask, moved, doubt, orphaned>>
<1> DEFINE next == WithQuit(cmds)
<1>1. /\ host' = host /\ user' = user /\ hostResolved' = hostResolved /\ sa' = sa
      /\ attempts' = attempts /\ channel' = channel /\ mask' = mask
      /\ moved' = moved /\ doubt' = doubt /\ orphaned' = orphaned
      /\ cmdlist' = next /\ reading_type' = "line" /\ requests' = Append(requests, Head(next))
  BY DEF request_command, client, history
<1>2. IsSeq(cmdlist') /\ cmdlist' # <<>> /\ \A i \in 1..Len(cmdlist') : Fresh(cmdlist'[i])
  BY <1>1, QuitFacts
<1>3. ~moved /\ ~orphaned => LoginOf(cmdlist', session.user = user)
  BY <1>1, QuitFacts
<1> HIDE DEF next
<1>4. Connected' /\ Busy' /\ ~waiting_banner'
  BY <1>1 DEF Connected, Busy
<1>5. 1 \in 1..Len(cmdlist') /\ Head(cmdlist') = cmdlist'[1]
  BY <1>2, SeqFacts
<1>6. TypeInv'
  <2>1. \A i \in 1..Len(cmdlist') : IsCommand(cmdlist'[i])
    BY <1>2 DEF Fresh
  <2>2. waiting_banner' \in BOOLEAN /\ IsSeq(wire')
    BY NoneFacts
  <2>3. QED BY <1>1, <1>2, <2>1, <2>2 DEF ClientInv, TypeInv, IsCommand
<1>7. LockInv'
  <2>1. requests' = <<cmdlist'[1]>>
    <3>1. requests' = Append(<<>>, cmdlist'[1])
      BY <1>1, <1>5
    <3>2. QED BY <3>1
  <2>2. \A i \in 1..Len(cmdlist') : Untouched(cmdlist'[i])
    BY <1>2 DEF Fresh
  <2>3. Untouched(cmdlist'[1]) /\ wire' = <<>> /\ reading_type' = "line"
    BY <1>1, <1>5, <2>2
  <2>4. Asked'
    BY <2>1, <2>3 DEF Asked, Untouched
  <2>5. QED BY <1>2, <1>4, <2>2, <2>4 DEF LockInv, Untouched
<1>8. AddressInv'
  BY <1>1, <1>4 DEF ClientInv, AddressInv
<1>9. LoginInv'
  <2>1. ASSUME ~moved', ~orphaned' PROVE LoginOf(cmdlist', LoggedIn')
    <3>1. LoggedIn' = (session.user = user)
      BY <1>1, <1>4 DEF LoggedIn
    <3>2. QED BY <1>1, <1>3, <2>1, <3>1
  <2>2. \A i \in 1..Len(cmdlist') : Auth(i)' <=> cmdlist'[i].kind = "auth"
    BY DEF Auth
  <2>3. user' = user /\ wire' = <<>>
    BY <1>1
  <2>4. QED BY <2>1, <2>2, <2>3 DEF LoginOf, LoginInv
<1>10. QED BY <1>1, <1>6, <1>7, <1>8, <1>9

LEMMA BannerFacts ==
    ASSUME ClientInv, BannerStep
    PROVE  ClientInv'
<1>1. /\ Connected /\ waiting_banner /\ waiting_banner' = FALSE /\ wire' = Tail(wire)
      /\ request_command(cmdlist) /\ session' = session /\ UNCHANGED pools /\ Silent
  BY DEF BannerStep
<1>2. wire' = <<>> /\ requests = <<>> /\ ~Busy
  <2>1. requests = <<>> /\ Len(wire) = 1 /\ IsSeq(wire) /\ ~Busy
    BY <1>1 DEF ClientInv, TypeInv, LockInv, Busy
  <2>2. Tail(wire) = <<>>
    BY <2>1, LastOne
  <2>3. QED BY <1>1, <2>1, <2>2
<1>3. IsSeq(cmdlist) /\ \A i \in 1..Len(cmdlist) : Fresh(cmdlist[i])
  BY <1>2 DEF ClientInv, TypeInv, LockInv, Fresh
<1>4. ~moved /\ ~orphaned => LoginOf(cmdlist, session.user = user)
  BY <1>1 DEF ClientInv, LoginInv, LoginOf, LoggedIn, Auth
<1>5. /\ TypeInv' /\ LockInv' /\ AddressInv' /\ LoginInv'
      /\ UNCHANGED <<host, user, mask, moved, doubt, orphaned>>
  BY <1>1, <1>2, <1>3, <1>4, BeginFacts
<1>6. FreshInv'
  <2>1. ~Unsure
    BY <1>1 DEF Unsure
  <2>2. UNCHANGED <<lookups, strs>>
    BY <1>1 DEF pools
  <2>3. QED BY <1>2, <1>5, <2>1, <2>2, FreshKept DEF ClientInv
<1>7. PoolInv' /\ SaidInv'
  BY <1>1, PoolsStill DEF ClientInv, SaidInv, Silent
<1>8. QED BY <1>5, <1>6, <1>7 DEF ClientInv

LEMMA MoveFacts ==
    ASSUME ClientInv, MoveStep
    PROVE  ClientInv'
<1>1. /\ host' = host /\ user' = user /\ hostResolved' = hostResolved /\ sa' = sa
      /\ attempts' = attempts /\ channel' = channel /\ waiting_banner' = waiting_banner
      /\ requests' = <<>> /\ session' = session /\ mask' = mask
      /\ moved' = moved /\ doubt' = doubt /\ orphaned' = orphaned
      /\ strs' = strs /\ lookups' = lookups /\ Silent
  BY DEF MoveStep, client, pools, history
<1>2. /\ Busy /\ wire # <<>> /\ wire' # <<>> /\ wire' = Tail(wire) /\ wire'[1].tag = wire[1].tag
      /\ cmdlist # <<>> /\ cmdlist[1].kind \in Answers /\ Part'
  BY DEF MoveStep
<1>3. /\ IsSeq(cmdlist') /\ Len(cmdlist') = Len(cmdlist) /\ IsCommand(cmdlist'[1])
      /\ cmdlist'[1].kind = cmdlist[1].kind /\ cmdlist'[1].arg = cmdlist[1].arg
      /\ \A i \in 1..Len(cmdlist) : i > 1 => cmdlist'[i] = cmdlist[i]
  BY DEF MoveStep, FirstMoved
<1>4. Len(cmdlist) \in Nat \ {0}
  BY <1>2, SeqFacts DEF ClientInv, TypeInv
<1>5. Connected' = Connected /\ Busy' /\ ~waiting_banner' /\ Connected /\ cmdlist' # <<>>
  BY <1>1, <1>2, <1>3, <1>4, NoneFacts DEF Connected, Busy
<1>6. \A i \in 1..Len(cmdlist) : cmdlist'[i].kind = cmdlist[i].kind /\ cmdlist'[i].arg = cmdlist[i].arg
  <2>1. \A i \in 1..Len(cmdlist) : i = 1 \/ i > 1
    BY <1>4
  <2>2. QED BY <1>3, <2>1
<1>7. TypeInv'
  <2>1. \A i \in 1..Len(cmdlist') : IsCommand(cmdlist'[i])
    <3>1. \A i \in 1..Len(cmdlist) : i = 1 \/ i > 1
      BY <1>4
    <3>2. QED BY <1>3, <3>1 DEF ClientInv, TypeInv
  <2>2. IsSeq(wire')
    BY <1>2, TailFacts DEF IsRest, ClientInv, TypeInv
  <2>3. QED BY <1>1, <1>3, <2>1, <2>2 DEF ClientInv, TypeInv, IsCommand
<1>8. LockInv'
  <2>1. \A i \in 1..Len(cmdlist') : i > 1 => Untouched(cmdlist'[i])
    BY <1>3 DEF ClientInv, LockInv
  <2>2. \A i \in 1..Len(cmdlist') : i > 1 => Untouched(cmdlist[i])'
    BY <2>1 DEF Untouched
  <2>3. Answering'
    BY <1>1, <1>2 DEF Answering
  <2>4. QED BY <1>5, <2>2, <2>3 DEF LockInv
<1>9. AddressInv'
  BY <1>1, <1>5 DEF ClientInv, AddressInv
<1>10. LoginInv'
  <2>1. LoggedIn' = LoggedIn /\ \A i : Auth(i)' = Auth(i)
    BY <1>1, <1>3, <1>5, <1>6 DEF LoggedIn, Auth
  <2>2. ~Auth(1)'
    BY <1>2, <1>3, KindFacts DEF Auth
  <2>3. QED BY <1>1, <1>2, <1>3, <1>5, <1>6, <2>1, <2>2 DEF ClientInv, LoginInv
<1>11. FreshInv'
  <2>1. ~Unsure
    BY <1>2, KindFacts, UnsureFacts DEF ClientInv
  <2>2. QED BY <1>1, <1>2, <1>3, <2>1, FreshKept DEF ClientInv
<1>12. PoolInv' /\ SaidInv'
  BY <1>1, PoolsStill DEF ClientInv, SaidInv, Silent, MoveStep
<1>13. QED BY <1>7, <1>8, <1>9, <1>10, <1>11, <1>12 DEF ClientInv

-----------------------------------------------------------------------------
(***************************************************************************)
(* A command is answered.                                                  *)
(***************************************************************************)
IsPut(n, pool, pos, e, new) ==
    /\ DOMAIN new = 1..n /\ new = [i \in 1..n |-> new[i]]
    /\ \A i \in 1..n : new[i] = IF i = pos THEN e ELSE pool[i]

LEMMA PutFacts ==
    ASSUME NEW n, NEW pool, pool = [i \in 1..n |-> pool[i]], NEW pos \in 1..n, NEW e
    PROVE  IsPut(n, pool, pos, e, [pool EXCEPT ![pos] = e])
<1>1. DOMAIN pool = 1..n
  OBVIOUS
<1>2. [pool EXCEPT ![pos] = e] = [i \in 1..n |-> IF i = pos THEN e ELSE pool[i]]
  BY <1>1
<1>3. PICK new : new = [i \in 1..n |-> IF i = pos THEN e ELSE pool[i]]
  OBVIOUS
<1>4. DOMAIN new = 1..n /\ new = [i \in 1..n |-> new[i]]
      /\ \A i \in 1..n : new[i] = IF i = pos THEN e ELSE pool[i]
  BY <1>3
<1>5. QED BY <1>2, <1>3, <1>4 DEF IsPut

LEMMA AfterFacts ==
    ASSUME NEW n \in Nat \ {0}, NEW pos \in 1..n
    PROVE  After(pos, n) \in 1..n
BY DEF After

LEMMA AnswerFacts ==
    ASSUME NEW c, IsCommand(c), Exact(Answer(c))
    PROVE  IsEntry(Answer(c)) /\ Answer(c).key = Key(c) /\ Answer(c).key[1] = c.kind
           /\ Answer(c).tags = c.tags
<1>1. Answer(c).key = Key(c) /\ Answer(c).tags = c.tags
  BY DEF Answer
<1>2. Key(c) = <<c.kind, c.arg>>
  BY DEF Key
<1>3. Answer(c).key[1] = c.kind
  BY <1>1, <1>2
<1>4. c.kind = "getdictmask" => Key(c) = <<"getdictmask", Blank>>
  BY <1>2 DEF IsCommand
<1>5. QED BY <1>1, <1>3, <1>4 DEF IsEntry

\* The ways an answer can be kept.
KeptLookup(c) ==
    /\ c.st > 0 /\ c.kind \in LookupKinds /\ IsPut(LookupPool, lookups, lookupPos, Answer(c), lookups')
    /\ lookupPos' = After(lookupPos, LookupPool) /\ strs' = strs /\ strPos' = strPos

KeptStr(c) ==
    /\ c.st > 0 /\ c.kind \in StrKinds /\ IsPut(StrPool, strs, strPos, Answer(c), strs')
    /\ strPos' = After(strPos, StrPool) /\ lookups' = lookups /\ lookupPos' = lookupPos

Wiped(c) ==
    /\ c.kind = "setmask"
    /\ strs' = [i \in 1..StrPool |->
                  IF strs[i].key = <<"getdictmask", Blank>> THEN Free ELSE strs[i]]
    /\ lookups' = [i \in 1..LookupPool |-> Free]
    /\ lookupPos' = lookupPos /\ strPos' = strPos

LEMMA KeptFacts ==
    ASSUME PoolInv, NEW c, Answered(c)
    PROVE  \/ KeptLookup(c)
           \/ KeptStr(c)
           \/ Wiped(c)
           \/ c.kind # "setmask" /\ UNCHANGED pools
<1>1. CASE c.st > 0 /\ c.kind \in LookupKinds
  <2>1. SaveLookup(c)
    BY <1>1 DEF Answered
  <2>2. lookups' = [lookups EXCEPT ![lookupPos] = Answer(c)]
    BY <2>1 DEF SaveLookup
  <2>3. IsPut(LookupPool, lookups, lookupPos, Answer(c), lookups')
    BY <2>2, PutFacts DEF PoolInv
  <2>4. QED BY <1>1, <2>1, <2>3 DEF SaveLookup, KeptLookup
<1>2. CASE c.st > 0 /\ c.kind \in StrKinds
  <2>1. SaveStr(c)
    BY <1>2, KindFacts DEF Answered
  <2>2. strs' = [strs EXCEPT ![strPos] = Answer(c)]
    BY <2>1 DEF SaveStr
  <2>3. IsPut(StrPool, strs, strPos, Answer(c), strs')
    BY <2>2, PutFacts DEF PoolInv
  <2>4. QED BY <1>2, <2>1, <2>3 DEF SaveStr, KeptStr
<1>3. CASE ~(c.st > 0 /\ c.kind \in LookupKinds) /\ ~(c.st > 0 /\ c.kind \in StrKinds) /\ c.kind = "setmask"
  <2>1. /\ strs' = Without(strs, <<"getdictmask", Blank>>) /\ lookups' = Emptied(lookups)
        /\ UNCHANGED <<strPos, lookupPos>>
    BY <1>3 DEF Answered
  <2>2. DOMAIN strs = 1..StrPool /\ DOMAIN lookups = 1..LookupPool
    BY DEF PoolInv
  <2>3. /\ strs' = [i \in 1..StrPool |->
                      IF strs[i].key = <<"getdictmask", Blank>> THEN Free ELSE strs[i]]
        /\ lookups' = [i \in 1..LookupPool |-> Free]
    BY <2>1, <2>2 DEF Without, Emptied
  <2>4. QED BY <1>3, <2>1, <2>3 DEF Wiped
<1>4. CASE ~(c.st > 0 /\ c.kind \in LookupKinds) /\ ~(c.st > 0 /\ c.kind \in StrKinds) /\ c.kind # "setmask"
  BY <1>4 DEF Answered
<1>5. QED BY <1>1, <1>2, <1>3, <1>4

LEMMA PoolsAfter ==
    ASSUME PoolInv, NEW c, IsCommand(c), c.st > 0 => Exact(Answer(c)), Answered(c)
    PROVE  PoolInv'
<1>1. LookupPool \in Nat \ {0} /\ StrPool \in Nat \ {0}
  BY PoolAssumption
<1>2. CASE KeptLookup(c)
  <2>1. IsEntry(Answer(c))
    BY <1>2, AnswerFacts DEF KeptLookup
  <2>2. /\ DOMAIN lookups' = 1..LookupPool /\ lookups' = [i \in 1..LookupPool |-> lookups'[i]]
        /\ \A i \in 1..LookupPool : IsEntry(lookups'[i])
    BY <1>2, <2>1 DEF KeptLookup, IsPut, PoolInv
  <2>3. lookupPos' \in 1..LookupPool
    BY <1>1, <1>2, AfterFacts DEF KeptLookup, PoolInv
  <2>4. QED BY <1>2, <2>2, <2>3 DEF KeptLookup, PoolInv
<1>3. CASE KeptStr(c)
  <2>1. IsEntry(Answer(c))
    BY <1>3, AnswerFacts DEF KeptStr
  <2>2. /\ DOMAIN strs' = 1..StrPool /\ strs' = [i \in 1..StrPool |-> strs'[i]]
        /\ \A i \in 1..StrPool : IsEntry(strs'[i])
    BY <1>3, <2>1 DEF KeptStr, IsPut, PoolInv
  <2>3. strPos' \in 1..StrPool
    BY <1>1, <1>3, AfterFacts DEF KeptStr, PoolInv
  <2>4. QED BY <1>3, <2>2, <2>3 DEF KeptStr, PoolInv
<1>4. CASE Wiped(c)
  <2>1. /\ DOMAIN strs' = 1..StrPool /\ strs' = [i \in 1..StrPool |-> strs'[i]]
        /\ DOMAIN lookups' = 1..LookupPool /\ lookups' = [i \in 1..LookupPool |-> lookups'[i]]
    BY <1>4 DEF Wiped
  <2>2. \A i \in 1..LookupPool : IsEntry(lookups'[i])
    BY <1>4, FreeFacts DEF Wiped
  <2>3. \A i \in 1..StrPool : strs'[i] = Free \/ strs'[i] = strs[i]
    BY <1>4 DEF Wiped
  <2>4. \A i \in 1..StrPool : IsEntry(strs'[i])
    BY <2>3, FreeFacts DEF PoolInv
  <2>5. QED BY <1>4, <2>1, <2>2, <2>4 DEF Wiped, PoolInv
<1>5. QED BY <1>2, <1>3, <1>4, KeptFacts, PoolsStill

\* The pools only have what is in force, when the answer was.
LEMMA FreshAfter ==
    ASSUME TypeInv, PoolInv, FreshInv, NEW c, IsCommand(c), Answered(c), Busy, cmdlist # <<>>,
           c.kind = cmdlist[1].kind,
           c.st > 0 => Exact(Answer(c)) /\ c.tags = {wire[1].tag},
           wire # <<>>, wire' = <<>>,
           UNCHANGED <<host, user, mask, moved, doubt, orphaned>>
    PROVE  FreshInv'
<1> SUFFICES ASSUME ~moved, ~doubt, ~orphaned
             PROVE  /\ \A i \in 1..LookupPool : Current(lookups'[i])
                    /\ \A i \in 1..StrPool : strs'[i].key[1] = "getdictmask" => Current(strs'[i])
  <2>1. (\A i : Current(lookups[i])' = Current(lookups'[i])) /\ (\A i : Current(strs[i])' = Current(strs'[i]))
    BY DEF Current
  <2>2. QED BY <2>1 DEF FreshInv
<1>1. Unsure <=> c.kind = "setmask"
  BY UnsureFacts
<1>2. c.kind # "setmask" =>
         /\ \A i \in 1..LookupPool : Current(lookups[i])
         /\ \A i \in 1..StrPool : strs[i].key[1] = "getdictmask" => Current(strs[i])
  BY <1>1 DEF FreshInv
<1>3. c.st > 0 /\ c.kind \in Cached => Current(Answer(c))
  <2>1. c.kind \in Cached => InForceNow(wire[1].tag)
    BY DEF FreshInv
  <2>2. c.st > 0 => Answer(c).tags = {wire[1].tag}
    BY AnswerFacts
  <2>3. QED BY <2>1, <2>2 DEF Current, InForceNow
<1>4. CASE KeptLookup(c)
  BY <1>2, <1>3, <1>4, KindFacts DEF KeptLookup, IsPut, Cached, Answers
<1>5. CASE KeptStr(c)
  BY <1>2, <1>3, <1>5, KindFacts DEF KeptStr, IsPut, Cached, Answers
<1>6. CASE Wiped(c)
  <2>1. \A i \in 1..LookupPool : lookups'[i] = Free
    BY <1>6 DEF Wiped
  <2>2. \A i \in 1..StrPool : \/ strs'[i] = Free
                              \/ strs'[i] = strs[i] /\ strs[i].key # <<"getdictmask", Blank>>
    BY <1>6 DEF Wiped
  <2>3. \A i \in 1..StrPool : strs'[i].key[1] # "getdictmask"
    BY <2>2, FreeFacts DEF PoolInv, IsEntry
  <2>4. QED BY <2>1, <2>3, FreeFacts
<1>7. CASE c.kind # "setmask" /\ UNCHANGED pools
  BY <1>2, <1>7 DEF pools
<1>8. QED BY <1>4, <1>5, <1>6, <1>7, KeptFacts

\* Without the first command, that was answered: a login is done when its answer is "ok".
LEMMA LoginAfter ==
    ASSUME TypeInv, LoginInv, ~moved, ~orphaned, Busy, cmdlist # <<>>, wire # <<>>,
           cmdlist[1].kind = "auth" => wire[1].value = "ok"
    PROVE  LoginOf(Tail(cmdlist), session.user = user)
<1>1. IsRest(cmdlist, Tail(cmdlist)) /\ Len(cmdlist) \in Nat \ {0}
  BY TailFacts, SeqFacts DEF TypeInv
<1>2. PICK t : t = Tail(cmdlist)
  OBVIOUS
<1>3. /\ Len(t) = Len(cmdlist) - 1
      /\ \A i \in 1..Len(t) : i + 1 \in 1..Len(cmdlist) /\ t[i] = cmdlist[i + 1]
  <2>1. Len(t) = Len(cmdlist) - 1 /\ \A i \in 1..Len(cmdlist) - 1 : t[i] = cmdlist[i + 1]
    BY <1>1, <1>2 DEF IsRest
  <2>2. \A i \in 1..Len(cmdlist) - 1 : i + 1 \in 1..Len(cmdlist)
    BY <1>1
  <2>3. QED BY <2>1, <2>2
<1>4. LoggedIn = (session.user = user) /\ Connected
  BY DEF LoggedIn, Busy
<1>5. Auth(1) => session.user = user
  BY DEF LoginInv, Auth
<1>6. \A j \in 1..Len(cmdlist) : Auth(j) => session.user = user \/ (j - 1 \in 1..Len(t) /\ t[j - 1].kind = "auth")
  <2>1. ASSUME NEW j \in 1..Len(cmdlist), Auth(j), j # 1
        PROVE  j - 1 \in 1..Len(t) /\ t[j - 1].kind = "auth"
    <3>1. j - 1 \in 1..Len(t) /\ j - 1 + 1 = j
      BY <1>1, <1>3, <2>1
    <3>2. t[j - 1] = cmdlist[j]
      BY <1>3, <3>1
    <3>3. QED BY <2>1, <3>1, <3>2 DEF Auth
  <2>2. QED BY <1>5, <2>1
<1>7. \A i \in 1..Len(t) : t[i].kind = "auth" => t[i].arg = user
  BY <1>3 DEF LoginInv
<1>8. session.user = user \/ \E i \in 1..Len(t) : t[i].kind = "auth"
  <2>1. session.user = user \/ \E i \in 1..Len(cmdlist) : Auth(i)
    BY <1>4 DEF LoginInv
  <2>2. QED BY <1>6, <2>1
<1>9. ASSUME NEW i \in 1..Len(t), t[i].kind \notin {"client", "auth", "quit"}
      PROVE  session.user = user \/ \E j \in 1..Len(t) : j < i /\ t[j].kind = "auth"
  <2>1. i + 1 \in 1..Len(cmdlist) /\ t[i] = cmdlist[i + 1]
    BY <1>3
  <2>2. session.user = user \/ \E j \in 1..Len(cmdlist) : j < i + 1 /\ Auth(j)
    BY <1>4, <1>9, <2>1 DEF LoginInv
  <2>3. ASSUME NEW j \in 1..Len(cmdlist), j < i + 1 PROVE j - 1 < i
    BY <1>1, <2>3
  <2>4. QED BY <1>6, <2>2, <2>3
<1>10. LoginOf(t, session.user = user)
  BY <1>7, <1>8, <1>9 DEF LoginOf
<1>11. QED BY <1>2, <1>10

LEMMA EndFacts ==
    ASSUME ClientInv, NEW c, EndStep(c)
    PROVE  ClientInv'
<1>1. /\ Busy /\ Connected /\ waiting_banner' = waiting_banner /\ wire # <<>> /\ requests = <<>>
      /\ IsCommand(c) /\ c.kind = cmdlist[1].kind
      /\ Answered(c) /\ wire' = <<>> /\ request_command(Tail(cmdlist)) /\ session' = session
  BY DEF EndStep, Busy
<1>2. cmdlist # <<>> /\ IsSeq(cmdlist)
  BY <1>1 DEF ClientInv, LockInv, TypeInv
<1>3. c.st > 0 => Exact(Answer(c)) /\ c.tags = {wire[1].tag}
  BY DEF EndStep
<1>4. cmdlist[1].kind = "auth" => wire[1].value = "ok"
  BY KindFacts DEF EndStep
<1>5. IsSeq(Tail(cmdlist)) /\ \A i \in 1..Len(Tail(cmdlist)) : Fresh(Tail(cmdlist)[i])
  <2>1. PICK t : t = Tail(cmdlist)
    OBVIOUS
  <2>2. IsRest(cmdlist, t) /\ Len(cmdlist) \in Nat \ {0}
    BY <1>2, <2>1, TailFacts, SeqFacts
  <2>3. IsSeq(t) /\ \A i \in 1..Len(t) : t[i] = cmdlist[i + 1] /\ i + 1 \in 1..Len(cmdlist) /\ i + 1 > 1
    <3>1. \A i \in 1..Len(cmdlist) - 1 : i + 1 \in 1..Len(cmdlist) /\ i + 1 > 1
      BY <2>2
    <3>2. QED BY <2>2, <3>1 DEF IsRest
  <2>4. \A i \in 1..Len(t) : Fresh(t[i])
    BY <2>3 DEF Fresh, ClientInv, TypeInv, LockInv
  <2>5. QED BY <2>1, <2>3, <2>4
<1>6. ~moved /\ ~orphaned => LoginOf(Tail(cmdlist), session.user = user)
  BY <1>1, <1>2, <1>4, LoginAfter DEF ClientInv
<1>7. /\ TypeInv' /\ LockInv' /\ AddressInv' /\ LoginInv'
      /\ UNCHANGED <<host, user, mask, moved, doubt, orphaned>>
  <2>1. waiting_banner' = FALSE
    BY <1>1 DEF Busy, ClientInv, TypeInv
  <2>2. QED BY <1>1, <1>5, <1>6, <2>1, BeginFacts
<1>8. PoolInv'
  BY <1>1, <1>3, PoolsAfter DEF ClientInv
<1>9. FreshInv'
  BY <1>1, <1>2, <1>3, <1>7, FreshAfter DEF ClientInv
<1>10. SaidInv'
  BY <1>1, <1>3 DEF SaidInv, Answered
<1>11. QED BY <1>7, <1>8, <1>9, <1>10 DEF ClientInv

-----------------------------------------------------------------------------
(***************************************************************************)
(* The server answers.                                                     *)
(***************************************************************************)
\* The command is the first one of the client; its answer, with this code and in this
\* structure, is on its way whole.
ServedAs(c, code, shape) ==
    /\ IsSeq(wire') /\ wire' # <<>>
    /\ wire' = Pieces(code, IF code = "ok" THEN Body(c.kind, shape) ELSE <<>>, Tag(c, shape))
    /\ wire'[1] = Piece("line", code, Tag(c, shape))
    /\ IF code = "ok" /\ c.kind = "setmask" THEN InForce(c.arg) ELSE mask' = mask
    /\ session' = IF code = "ok" /\ c.kind = "auth" THEN [session EXCEPT !.user = c.arg]
                  ELSE session

LEMMA NoneBefore ==
    ASSUME NEW s, IsSeq(s)
    PROVE  <<>> \o s = s
<1>1. PICK S : s \in Seq(S)
  BY DEF IsSeq
<1>2. QED BY <1>1, ConcatEmptySeq

LEMMA ServeFacts ==
    ASSUME TypeInv, LockInv, Serve
    PROVE  /\ Busy /\ Asked /\ cmdlist # <<>> /\ IsCommand(cmdlist[1])
           /\ requests' = <<>> /\ Silent
           /\ UNCHANGED <<client, reader, cmdlist, pools, bounds, history>>
           /\ \E code \in Codes(cmdlist[1]), shape \in Shapes(cmdlist[1].kind) :
                 ServedAs(cmdlist[1], code, shape)
<1> DEFINE c == cmdlist[1]
<1>1. requests # <<>>
  BY DEF Serve
<1>2. /\ Busy /\ Asked /\ cmdlist # <<>> /\ Head(requests) = c /\ IsCommand(c)
      /\ Tail(requests) = <<>> /\ wire = <<>>
  BY <1>1, AskedFacts
<1> HIDE DEF c
<1>3. /\ requests' = <<>> /\ Silent
      /\ UNCHANGED <<client, reader, cmdlist, pools, bounds, history>>
  BY <1>2 DEF Serve
<1>4. PICK code \in Codes(c), shape \in Shapes(c.kind) :
        /\ wire' = wire \o Pieces(code, IF code = "ok" THEN Body(c.kind, shape) ELSE <<>>,
                                  Tag(c, shape))
        /\ IF code = "ok" /\ c.kind = "setmask" THEN InForce(c.arg) ELSE mask' = mask
        /\ session' = IF code = "ok" /\ c.kind = "auth" THEN [session EXCEPT !.user = c.arg]
                      ELSE session
  BY <1>2 DEF Serve
<1>5. PICK body : body = IF code = "ok" THEN Body(c.kind, shape) ELSE <<>>
  OBVIOUS
<1>6. Len(body) \in Nat /\ DOMAIN body = 1..Len(body)
  BY <1>5, BodyFacts
<1>7. PICK tag : tag = Tag(c, shape)
  OBVIOUS
<1>8. PICK s : s = Pieces(code, body, tag)
  OBVIOUS
<1>9. IsSeq(s) /\ Len(s) = Len(body) + 1 /\ s[1] = Piece("line", code, tag)
  BY <1>6, <1>8, PiecesFacts
<1>10. wire' = s
  <2>1. wire' = <<>> \o s
    BY <1>2, <1>4, <1>5, <1>7, <1>8
  <2>2. QED BY <1>9, <2>1, NoneBefore
<1>11. s # <<>>
  <2>1. Len(s) # 0
    BY <1>6, <1>9
  <2>2. QED BY <2>1, NoneFacts
<1>12. ServedAs(c, code, shape)
  BY <1>4, <1>5, <1>7, <1>8, <1>9, <1>10, <1>11 DEF ServedAs
<1>13. QED BY <1>2, <1>3, <1>12 DEF c

LEMMA ServeStep ==
    ASSUME ClientInv, Serve
    PROVE  ClientInv'
<1>1. /\ Busy /\ Asked /\ cmdlist # <<>> /\ IsCommand(cmdlist[1])
      /\ requests' = <<>> /\ Silent
      /\ UNCHANGED <<client, reader, cmdlist, pools, bounds, history>>
  BY ServeFacts DEF ClientInv
<1>2. PICK code \in Codes(cmdlist[1]), shape \in Shapes(cmdlist[1].kind) : ServedAs(cmdlist[1], code, shape)
  BY ServeFacts DEF ClientInv
<1>3. PICK c : c = cmdlist[1]
  OBVIOUS
<1>4. PICK tag : tag = Tag(c, shape)
  OBVIOUS
<1>5. /\ IsSeq(wire') /\ wire' # <<>> /\ wire'[1] = Piece("line", code, tag)
      /\ wire' = Pieces(code, IF code = "ok" THEN Body(c.kind, shape) ELSE <<>>, tag)
  BY <1>2, <1>3, <1>4 DEF ServedAs
<1>6. wire'[1].tag = tag /\ wire'[1].value = code
  BY <1>5 DEF Piece
<1>7. /\ tag.key = Key(c) /\ tag.shape = shape /\ tag.host = session.host /\ tag.user = session.user
      /\ tag.mask = mask[session.host][session.user]
  BY <1>4 DEF Tag
<1>8. /\ host' = host /\ user' = user /\ hostResolved' = hostResolved /\ sa' = sa
      /\ attempts' = attempts /\ channel' = channel /\ waiting_banner' = waiting_banner
      /\ reading_type' = reading_type /\ cmdlist' = cmdlist
      /\ moved' = moved /\ doubt' = doubt /\ orphaned' = orphaned
      /\ strs' = strs /\ lookups' = lookups
  BY <1>1 DEF client, reader, history, pools
<1>9. Connected /\ Connected' /\ Busy' /\ ~waiting_banner /\ ~waiting_banner'
  BY <1>1, <1>8 DEF Busy, Connected
<1>10. 1 \in 1..Len(cmdlist) /\ (c.kind = "auth" => c.arg \in People) /\ (c.kind = "setmask" => c.arg \in Masks)
  BY <1>1, <1>3, SeqFacts DEF ClientInv, TypeInv, IsCommand
<1>11. /\ session \in [host : Hosts, user : People]
       /\ session'.host = session.host /\ session' \in [host : Hosts, user : People]
       /\ session'.user = IF code = "ok" /\ c.kind = "auth" THEN c.arg ELSE session.user
  <2>1. session \in [host : Hosts, user : People]
    BY DEF ClientInv, TypeInv
  <2>2. session' = IF code = "ok" /\ c.kind = "auth" THEN [session EXCEPT !.user = c.arg] ELSE session
    BY <1>2, <1>3 DEF ServedAs
  <2>3. QED BY <1>10, <2>1, <2>2
<1>12. IF code = "ok" /\ c.kind = "setmask" THEN InForce(c.arg) ELSE mask' = mask
  BY <1>2, <1>3 DEF ServedAs
<1>13. TypeInv'
  <2>1. mask' \in [Hosts -> [People -> Masks]]
    <3>1. CASE code = "ok" /\ c.kind = "setmask"
      BY <1>10, <1>12, <3>1, MaskFacts DEF ClientInv
    <3>2. CASE ~(code = "ok" /\ c.kind = "setmask")
      BY <1>12, <3>2 DEF ClientInv, TypeInv
    <3>3. QED BY <3>1, <3>2
  <2>2. QED BY <1>5, <1>8, <1>11, <2>1 DEF ClientInv, TypeInv, IsCommand
<1>14. LockInv'
  <2>1. Untouched(c) /\ reading_type = "line"
    BY <1>1, <1>3 DEF Asked
  <2>2. Of(c, shape)'
    BY <1>6, <1>7 DEF Of, Key
  <2>3. Whole'
    BY <1>2, <1>3, <1>5, <1>6, <1>7, <1>8, <2>1 DEF Whole, Of, Untouched, Codes, Key
  <2>4. Answering'
    BY <1>1, <1>5, <2>3 DEF Answering
  <2>5. \A i \in 1..Len(cmdlist) : i > 1 => Untouched(cmdlist[i])
    BY DEF ClientInv, LockInv
  <2>6. \A i \in 1..Len(cmdlist') : i > 1 => Untouched(cmdlist[i])'
    BY <1>8, <2>5 DEF Untouched
  <2>7. QED BY <1>1, <1>8, <1>9, <2>4, <2>6 DEF LockInv
<1>15. AddressInv'
  BY <1>8, <1>9, <1>11 DEF ClientInv, AddressInv
<1>16. ASSUME ~moved', ~orphaned' PROVE LoginInv'
  <2>1. ~moved /\ ~orphaned /\ (\A i : Auth(i)' = Auth(i)) /\ (Auth(1) <=> c.kind = "auth")
    BY <1>3, <1>8, <1>10, <1>16 DEF Auth
  <2>2. /\ LoggedIn <=> session.user = user
        /\ LoggedIn' <=> session'.user = user
    BY <1>8, <1>9 DEF LoggedIn
  <2>3. c.kind = "auth" => c.arg = user
    BY <1>3, <1>10, <2>1 DEF ClientInv, LoginInv
  <2>4. CASE code = "ok" /\ c.kind = "auth"
    <3>1. session'.user = user /\ LoggedIn'
      BY <1>11, <2>2, <2>3, <2>4
    <3>2. QED BY <1>8, <1>9, <2>1, <3>1 DEF ClientInv, LoginInv
  <2>5. CASE ~(code = "ok" /\ c.kind = "auth")
    <3>1. LoggedIn' <=> LoggedIn
      BY <1>11, <2>2, <2>5
    <3>2. ~(Auth(1)' /\ wire'[1].value = "ok")
      BY <1>6, <2>1, <2>5
    <3>3. QED BY <1>8, <1>9, <2>1, <3>1, <3>2 DEF ClientInv, LoginInv
  <2>6. QED BY <2>4, <2>5
<1>4a. LoginInv'
  BY <1>16 DEF LoginInv
<1>18. ASSUME ~moved', ~doubt', ~orphaned' PROVE FreshInv'
  <2>1. ~moved /\ ~doubt /\ ~orphaned /\ (Unsure' <=> Unsure)
    BY <1>8, <1>18 DEF Unsure, Connected
  <2>2. Unsure <=> c.kind = "setmask"
    BY <1>1, <1>3, UnsureFacts DEF ClientInv
  <2>3. CASE c.kind = "setmask"
    <3>1. Unsure' /\ cmdlist'[1].kind \notin Cached
      BY <1>3, <1>8, <2>1, <2>2, <2>3, KindFacts DEF Answers
    <3>2. QED BY <3>1 DEF FreshInv
  <2>4. CASE c.kind # "setmask"
    <3>1. mask' = mask
      BY <1>12, <2>4
    <3>2. /\ \A i \in 1..LookupPool : Current(lookups[i])
          /\ \A i \in 1..StrPool : strs[i].key[1] = "getdictmask" => Current(strs[i])
      BY <2>1, <2>2, <2>4 DEF ClientInv, FreshInv
    <3>3. (\A i : Current(lookups[i])' = Current(lookups[i])) /\ (\A i : Current(strs[i])' = Current(strs[i]))
      BY <1>8, <3>1 DEF Current
    <3>4. c.kind \in Cached => InForceNow(tag)
      <4>1. session.host = host
        BY <1>9, <2>1 DEF ClientInv, AddressInv
      <4>2. ~ \E j \in 1..Len(cmdlist) : j < 1 /\ Auth(j)
        BY <1>10
      <4>3. c.kind \in Cached => c.kind \notin {"client", "auth", "quit"}
        BY KindFacts DEF Answers
      <4>4. c.kind \in Cached => LoggedIn
        BY <1>3, <1>10, <2>1, <4>2, <4>3 DEF ClientInv, LoginInv
      <4>5. c.kind \in Cached => session.user = user
        BY <1>9, <4>4 DEF LoggedIn
      <4>6. QED BY <1>7, <4>1, <4>5 DEF InForceNow
    <3>5. InForceNow(tag) => InForceNow(wire[1].tag)'
      BY <1>6, <1>8, <3>1 DEF InForceNow
    <3>6. QED BY <1>3, <1>8, <3>2, <3>3, <3>4, <3>5 DEF FreshInv
  <2>5. QED BY <2>3, <2>4
<1>19. FreshInv'
  BY <1>18 DEF FreshInv
<1>20. PoolInv' /\ SaidInv'
  BY <1>1, PoolsStill DEF ClientInv, SaidInv, Silent
<1>21. QED BY <1>13, <1>14, <1>15, <1>4a, <1>19, <1>20 DEF ClientInv

-----------------------------------------------------------------------------
(***************************************************************************)
(* The theorems.                                                           *)
(***************************************************************************)
LEMMA InitFacts ==
    ASSUME Init
    PROVE  ClientInv
<1>1. host \in Hosts
  BY ServerAssumption DEF Init
<1>2. /\ user = Blank /\ hostResolved = FALSE /\ attempts = <<>> /\ channel = 0
      /\ waiting_banner = FALSE /\ cmdlist = <<>> /\ said = Free
      /\ strs = [i \in 1..StrPool |-> Free] /\ strPos = 1
      /\ lookups = [i \in 1..LookupPool |-> Free] /\ lookupPos = 1
      /\ requests = <<>> /\ wire = <<>> /\ session = [host |-> host, user |-> Blank]
      /\ moved = FALSE /\ doubt = FALSE /\ orphaned = FALSE
  BY DEF Init
<1>3. Len(cmdlist) = 0 /\ IsSeq(cmdlist) /\ IsSeq(wire) /\ attempts \in Seq(Attempt) /\ Len(attempts) = 0
  BY <1>2, NoneFacts DEF IsSeq
<1>4. Blank \in People /\ ~Connected /\ ~Busy
  BY <1>2 DEF People, Connected, Busy
<1>5. mask \in [Hosts -> [People -> Masks]]
  <2>1. mask = [h \in Hosts |-> [u \in People |-> CHOOSE m \in Masks : TRUE]]
    BY DEF Init, People
  <2>2. (CHOOSE m \in Masks : TRUE) \in Masks
    BY ServerAssumption
  <2>3. QED BY <2>1, <2>2
<1>6. TypeInv
  <2>1. session \in [host : Hosts, user : People]
    BY <1>1, <1>2, <1>4
  <2>2. \A i \in 1..Len(cmdlist) : IsCommand(cmdlist[i])
    BY <1>3
  <2>3. /\ hostResolved = FALSE /\ waiting_banner = FALSE /\ moved = FALSE /\ doubt = FALSE
        /\ orphaned = FALSE /\ user \in People
    BY <1>2, <1>4
  <2>4. QED BY <1>1, <1>3, <1>5, <2>1, <2>2, <2>3 DEF TypeInv
<1>7. LockInv
  BY <1>2, <1>3, <1>4 DEF LockInv
<1>8. AddressInv /\ LoginInv
  BY <1>2, <1>3, <1>4 DEF AddressInv, LoginInv, LoggedIn
<1>9. (\A i \in 1..LookupPool : lookups[i] = Free) /\ (\A i \in 1..StrPool : strs[i] = Free)
  BY <1>2
<1>10. FreshInv
  BY <1>2, <1>9, FreeFacts DEF FreshInv, Busy, Connected
<1>11. PoolInv
  <2>1. 1 \in 1..StrPool /\ 1 \in 1..LookupPool
    BY PoolAssumption
  <2>2. QED BY <1>2, <1>9, <2>1, FreeFacts DEF PoolInv
<1>12. SaidInv
  BY <1>2 DEF SaidInv
<1>13. QED BY <1>6, <1>7, <1>8, <1>10, <1>11, <1>12 DEF ClientInv

LEMMA StepFacts ==
    ASSUME ClientInv, [Next]_vars
    PROVE  ClientInv'
<1>1. CASE User
  BY <1>1, SetStep, SendStep DEF User
<1>2. CASE Threads
  BY <1>2, DnsStep, ConnectedStep DEF Threads
<1>3. CASE on_io_in_event
  BY <1>3, ParseCases, CutFacts, BannerFacts, MoveFacts, EndFacts DEF ClientInv
<1>4. CASE Serve
  BY <1>4, ServeStep
<1>5. CASE on_io_error
  <2>1. CutStep
    BY <1>5 DEF on_io_error, disconnect, CutStep, ClientInv, TypeInv
  <2>2. QED BY <2>1, CutFacts
<1>6. CASE UNCHANGED vars
  <2>1. /\ UNCHANGED <<host, user, reader, cmdlist, requests, wire, session, mask, pools>>
        /\ UNCHANGED <<moved, doubt, orphaned>>
        /\ attempts' = attempts /\ hostResolved' = hostResolved /\ sa' = sa /\ said' = said
    BY <1>6 DEF vars, client, server, history
  <2>2. attempts' \in Seq(Attempt) /\ hostResolved' \in BOOLEAN /\ (hostResolved' => sa' \in Hosts)
    BY <2>1 DEF ClientInv, TypeInv
  <2>3. TypeInv' /\ LockInv' /\ AddressInv' /\ LoginInv' /\ FreshInv' /\ PoolInv'
    BY <2>1, <2>2, RestStill
  <2>4. QED BY <2>1, <2>3 DEF ClientInv, SaidInv
<1>7. QED BY <1>1, <1>2, <1>3, <1>4, <1>5, <1>6 DEF Next, System

LEMMA AnswerInStep ==
    ASSUME TypeInv, Answering
    PROVE  /\ wire[1].how = reading_type
           /\ \A i \in 1..Len(wire) : wire[i].tag.key = Key(cmdlist[1])
<1> DEFINE c == cmdlist[1]
<1>1. IsSeq(wire) /\ wire # <<>> /\ 1 \in 1..Len(wire) /\ Len(wire) \in Nat
  BY SeqFacts DEF TypeInv, Answering
<1>2. CASE Whole
  <2>1. PICK code \in Codes(c), shape \in Shapes(c.kind) :
          /\ wire = Pieces(code, IF code = "ok" THEN Body(c.kind, shape) ELSE <<>>, wire[1].tag)
          /\ Of(c, shape)
    BY <1>2 DEF Whole
  <2>2. PICK body : body = IF code = "ok" THEN Body(c.kind, shape) ELSE <<>>
    OBVIOUS
  <2>3. Len(body) \in Nat /\ DOMAIN body = 1..Len(body)
    BY <2>2, BodyFacts
  <2>4. PICK tag : tag = wire[1].tag
    OBVIOUS
  <2>5. wire = Pieces(code, body, tag)
    BY <2>1, <2>2, <2>4
  <2>6. /\ Len(wire) = Len(body) + 1 /\ wire[1] = Piece("line", code, tag)
        /\ \A i \in 1..Len(body) : wire[i + 1] = Piece(body[i][1], body[i][2], tag)
    BY <2>3, <2>5, PiecesFacts
  <2>7. ASSUME NEW i \in 1..Len(wire) PROVE wire[i].tag = tag
    <3>1. CASE i = 1
      BY <2>4, <3>1
    <3>2. CASE i # 1
      <4>1. i - 1 \in 1..Len(body) /\ i - 1 + 1 = i
        BY <2>3, <2>6, <3>2
      <4>2. wire[i] = Piece(body[i - 1][1], body[i - 1][2], tag)
        BY <2>6, <4>1
      <4>3. QED BY <4>2 DEF Piece
    <3>3. QED BY <3>1, <3>2
  <2>8. wire[1].how = "line"
    BY <2>6 DEF Piece
  <2>9. QED BY <1>2, <2>1, <2>4, <2>7, <2>8 DEF Whole, Of
<1>3. CASE Part
  <2>0. PICK shape \in Shapes(c.kind) : \E run :
          \E k \in 1..Len(Body(c.kind, shape)) : PartFrom(c, shape, run, Body(c.kind, shape), k)
    BY <1>3 DEF Part
  <2>1. PICK run :
          \E k \in 1..Len(Body(c.kind, shape)) : PartFrom(c, shape, run, Body(c.kind, shape), k)
    BY <2>0
  <2>2. PICK body : body = Body(c.kind, shape)
    OBVIOUS
  <2>3. PICK k \in 1..Len(body) : PartFrom(c, shape, run, body, k)
    BY <2>1, <2>2
  <2>4. PICK tag : tag = wire[1].tag
    OBVIOUS
  <2>5. /\ \A i \in 1..Len(wire) : wire[i] = Piece(body[k + i - 1][1], body[k + i - 1][2], tag)
        /\ tag.key = Key(c) /\ run[k] = At(c) /\ ReadsTo(run, c.kind, body, shape)
    BY <2>3, <2>4 DEF PartFrom, Of
  <2>6. \A i \in 1..Len(wire) : wire[i].tag = tag
    <3>1. \A h, v : Piece(h, v, tag).tag = tag
      BY DEF Piece
    <3>2. QED BY <2>5, <3>1
  <2>7. wire[1].how = reading_type
    <3>1. k + 1 - 1 = k
      BY <2>5 DEF ReadsTo
    <3>2. wire[1] = Piece(body[k][1], body[k][2], tag)
      BY <1>1, <2>5, <3>1
    <3>3. body[k][1] = run[k].how
      BY <2>5 DEF ReadsTo
    <3>4. QED BY <2>5, <3>2, <3>3 DEF Piece, At
  <2>8. QED BY <2>5, <2>6, <2>7
<1>4. QED BY <1>2, <1>3 DEF Answering

\* The inductive invariant: the exchange is at one of its places (LockInv), connections and
\* logins belong to the server and the user that are named (AddressInv, LoginInv), what the
\* pools hold and what they are about to get is in force (FreshInv), and every entry is the
\* answer to its command (PoolInv, SaidInv).
THEOREM ClientCorrect == Spec => []ClientInv
<1>1. QED BY InitFacts, StepFacts, PTL DEF Spec

\* Client and server never lose step, whatever calls, threads, failures and answers come in
\* what order: parse always has a command to give the next piece to, and reads it the way
\* the server wrote it (on_io_in_event).
THEOREM StepsAgree == Spec => []InStep
<1>1. ClientInv => InStep
  <2> SUFFICES ASSUME ClientInv, Connected, ~waiting_banner
               PROVE  /\ cmdlist # <<>>
                      /\ (requests = <<>>) # (wire = <<>>)
                      /\ requests # <<>> => Len(requests) = 1 /\ Key(Head(requests)) = Key(Head(cmdlist))
                                            /\ Head(cmdlist).st = 0
                      /\ wire # <<>> => Head(wire).how = reading_type
                                        /\ \A i \in DOMAIN wire : wire[i].tag.key = Key(Head(cmdlist))
    BY DEF InStep
  <2>1. Busy /\ cmdlist # <<>> /\ Head(cmdlist) = cmdlist[1] /\ IsSeq(wire)
    BY SeqFacts DEF Busy, ClientInv, LockInv, TypeInv
  <2>2. CASE Asked
    <3>1. requests = <<cmdlist[1]>> /\ wire = <<>> /\ cmdlist[1].st = 0
      BY <2>2 DEF Asked, Untouched
    <3>2. Len(requests) = 1 /\ requests # <<>> /\ Head(requests) = cmdlist[1]
      BY <3>1, OneFacts, SeqFacts
    <3>3. QED BY <2>1, <3>1, <3>2
  <2>3. CASE Answering
    <3>1. requests = <<>> /\ wire # <<>>
      BY <2>3 DEF Answering
    <3>2. wire[1].how = reading_type /\ \A i \in 1..Len(wire) : wire[i].tag.key = Key(cmdlist[1])
      BY <2>1, <2>3, AnswerInStep DEF ClientInv
    <3>3. QED BY <2>1, <3>1, <3>2, SeqFacts
  <2>4. QED BY <2>1, <2>2, <2>3 DEF ClientInv, LockInv
<1>2. QED BY <1>1, ClientCorrect, PTL

\* What is emitted for a command, fetched from the server or kept in a pool, is in the
\* structure the server sent to this very command (parse_dict_result, save_cache, get_cache).
THEOREM AnswersCorrect == Spec => []AnswersExact
<1>1. ClientInv => AnswersExact
  BY DEF ClientInv, SaidInv, AnswersExact, Exact
<1>2. QED BY <1>1, ClientCorrect, PTL

\* The pools only answer what the server would answer, unless one of the three things that
\* spoil them has happened: then clean_cache and the key a mask is kept under are enough.
THEOREM CachesCorrect == Spec => []CacheFresh
<1>1. ClientInv => CacheFresh
  BY DEF ClientInv, FreshInv, PoolInv, CacheFresh
<1>2. QED BY <1>1, ClientCorrect, PTL

=============================================================================
