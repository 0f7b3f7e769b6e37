------------------------------- MODULE Terms -------------------------------
(***************************************************************************)
(* Statement terms as scripts/phys_i3.py parses them, with the queries the *)
(* physics experiments ask of a tree.  A term is a tuple tagged by its     *)
(* node kind:                                                              *)
(*    <<"b", i>>  bound variable (de Bruijn)   <<"n", v>>  literal         *)
(*    <<"c", x>>  constant                     <<"s", l>>  sort            *)
(*    <<"a", f, x>>  application               <<"j", S, i, e>> projection *)
(*    <<"l", A, b>>, <<"p", A, b>>  lambda and Pi                          *)
(*    <<"e", A, v, b>>  let                                                *)
(* Strings, universe levels of constants and binder infos are left out.    *)
(***************************************************************************)
EXTENDS Integers, Sequences, FiniteSets, SequencesExt

Tag(e) == e[1]
Const(x) == <<"c", x>>
Bvar(i) == <<"b", i>>
Lit(v) == <<"n", v>>
Lam(A, b) == <<"l", A, b>>
Pi(A, b) == <<"p", A, b>>
App(f, args) == FoldLeft(LAMBDA g, x : <<"a", g, x>>, f, args)

(* A projection's structure and index are names, not subterms. *)
Parts(e) ==
    CASE Tag(e) \in {"a", "l", "p"} -> <<e[2], e[3]>>
      [] Tag(e) = "e" -> <<e[2], e[3], e[4]>>
      [] Tag(e) = "j" -> <<e[4]>>
      [] OTHER -> <<>>

(* Its parts as an atom's key shows them: of a let only the body. *)
RECURSIVE Render(_)
Render(e) ==
    CASE Tag(e) \in {"a", "l", "p"} -> <<Tag(e), Render(e[2]), Render(e[3])>>
      [] Tag(e) = "e" -> <<"let", Render(e[4])>>
      [] Tag(e) = "j" -> <<"j", e[2], e[3], Render(e[4])>>
      [] OTHER -> e

(* How many of the parts' binders part i sits under. *)
Under(e, i) == IF Tag(e) \in {"l", "p", "e"} /\ i = Len(Parts(e)) THEN 1 ELSE 0

RECURSIVE SpineOf(_, _)
SpineOf(e, args) == IF Tag(e) = "a" THEN SpineOf(e[2], <<e[3]>> \o args)
                                   ELSE [head |-> e, args |-> args]
Spine(e) == SpineOf(e, <<>>)

None == <<"none">>
ConstName(e) == IF Tag(e) = "c" THEN e[2] ELSE "none"
HeadName(e) == ConstName(Spine(e).head)
(* The member of a singleton. *)
Only(S) == CHOOSE x \in S : TRUE
FromEnd(args, k) == args[Len(args) + 1 - k]

(* The nodes every walk of the scripts goes on with: the spine's head and  *)
(* arguments rather than its prefixes, and the parts of any other node.    *)
Branches(e) == IF Tag(e) = "a" THEN <<Spine(e).head>> \o Spine(e).args ELSE Parts(e)
Deeper(e, i) == IF Tag(e) = "a" THEN 0 ELSE Under(e, i)

(* Every maximal application spine, once per occurrence: the nodes below   *)
(* it that are applications.                                               *)
RECURSIVE IterSpines(_)
IterSpines(e) ==
    (IF Tag(e) = "a" THEN <<Spine(e)>> ELSE <<>>)
        \o FlattenSeq([i \in DOMAIN Branches(e) |-> IterSpines(Branches(e)[i])])

RECURSIVE PiBinders(_)
PiBinders(e) == IF Tag(e) = "p" THEN <<e[2]>> \o PiBinders(e[3]) ELSE <<>>
RECURSIVE PiBody(_)
PiBody(e) == IF Tag(e) = "p" THEN PiBody(e[3]) ELSE e
(* How many enclosing binders a subterm requires; 0 when it is closed. *)
RECURSIVE Needs(_)
Needs(e) ==
    IF Tag(e) = "b" THEN e[2] + 1
    ELSE LET need(i) == Needs(Parts(e)[i]) - Under(e, i)
         IN Max({0} \cup {need(i) : i \in DOMAIN Parts(e)})
Open(e) == Needs(e) > 0

RECURSIVE NodeCount(_)
NodeCount(e) ==
    1 + FoldFunction(+, 0, [i \in DOMAIN Parts(e) |-> NodeCount(Parts(e)[i])])

(* The reference for Needs: does e mention an index that escapes depth     *)
(* enclosing binders?                                                      *)
RECURSIVE HasLooseBvar(_, _)
HasLooseBvar(e, depth) ==
    \/ Tag(e) = "b" /\ e[2] >= depth
    \/ \E i \in DOMAIN Parts(e) : HasLooseBvar(Parts(e)[i], depth + Under(e, i))

(* A statement with every constant's name forgotten. *)
RECURSIVE ShapeKey(_)
ShapeKey(e) ==
    CASE Tag(e) = "c" -> <<"c">>
      [] Tag(e) = "j" -> <<"j", e[3], ShapeKey(e[4])>>
      [] Tag(e) \in {"b", "n", "s"} -> e
      [] OTHER -> <<Tag(e)>> \o [i \in DOMAIN Parts(e) |-> ShapeKey(Parts(e)[i])]

(***************************************************************************)
(* crates/atlas/src/skel/erase.rs: a statement with what an analogy may    *)
(* ignore replaced by holes, in five levels.  Beyond the nodes above:      *)
(*    <<"c", x, levels>>          constant with its universe levels        *)
(*    <<"l", A, b, info>>, <<"p", A, b, info>>   binders with their info   *)
(*    <<"t", k>>                  string literal   <<"_">>   hole          *)
(* Infos are d(efault), i(mplicit), s(trict implicit), t (instance); a     *)
(* level is <<"0">>, <<"u", i>>, <<"+", l>>, <<"M", l, m>> or Star.        *)
(***************************************************************************)
EXACT == 0
PRESENTATION == 1
INSTANCES == 2
CARRIERS == 3
SHAPE == 4

Hole == <<"_">>
Star == <<"*">>
Zero_ == <<"0">>

Rebuild(e, parts) ==
    CASE Tag(e) = "a" -> <<"a", parts[1], parts[2]>>
      [] Tag(e) \in {"l", "p"} -> <<Tag(e), parts[1], parts[2], e[4]>>
      [] Tag(e) = "e" -> <<"e", parts[1], parts[2], parts[3]>>
      [] Tag(e) = "j" -> <<"j", e[2], e[3], parts[1]>>
      [] OTHER -> e

RECURSIVE UnwrapOutParam(_)
UnwrapOutParam(t) ==
    IF Len(Spine(t).args) = 1 /\ HeadName(t) \in {"outParam", "semiOutParam"}
    THEN UnwrapOutParam(Spine(t).args[1]) ELSE t

IsNonPropSort(dom) ==
    LET d == UnwrapOutParam(dom) IN Tag(d) = "s" /\ d[2] # Zero_

RECURSIVE TelescopeKinds(_)
TelescopeKinds(ty) ==
    IF Tag(ty) # "p" THEN <<>>
    ELSE <<[binder |-> ty[4], carrier |-> ty[4] = "i" /\ IsNonPropSort(ty[2])]>>
            \o TelescopeKinds(ty[3])

(* The argument interfaces and the type formers of a slice's constants.    *)
Signatures(rows) ==
    [table |-> [x \in DOMAIN rows |-> TelescopeKinds(rows[x])],
     formers |-> {x \in DOMAIN rows : IsNonPropSort(PiBody(rows[x]))}]

ArgKind(sigs, e, i) ==
    LET head == HeadName(e)
    IN IF head \in DOMAIN sigs.table /\ i \in DOMAIN sigs.table[head]
       THEN sigs.table[head][i] ELSE [binder |-> "d", carrier |-> FALSE]

IsConcreteCarrier(sigs, dom) ==
    ~Open(dom) /\ HeadName(UnwrapOutParam(dom)) \in sigs.formers

Erased(levels, level) ==
    IF level >= PRESENTATION THEN [i \in DOMAIN levels |-> Star] ELSE levels

ErasedInfo(info, level) ==
    IF level = SHAPE THEN "d" ELSE IF level >= PRESENTATION /\ info = "s" THEN "i" ELSE info

(* "a binder survives": only its info and its domain change. *)
HolesDomain(sigs, bi, dom, level) ==
    \/ level >= INSTANCES /\ bi = "t"
    \/ level >= CARRIERS /\ ((bi = "i" /\ IsNonPropSort(dom)) \/ IsConcreteCarrier(sigs, dom))

HolesArgument(kind, level) ==
    \/ level >= INSTANCES /\ kind.binder = "t"
    \/ level >= CARRIERS /\ kind.carrier

IsNumeral(e) ==
    /\ HeadName(e) = "OfNat.ofNat" /\ Len(Spine(e).args) = 3
    /\ Tag(Spine(e).args[2]) = "n"

RECURSIVE Erase(_, _, _)
Erase(sigs, e, level) ==
    CASE level = EXACT -> e
      [] level # EXACT /\ Tag(e) = "a" ->
            LET args == Spine(e).args
                arg(i) == IF HolesArgument(ArgKind(sigs, e, i), level) THEN Hole
                          ELSE Erase(sigs, args[i], level)
            IN IF IsNumeral(e) THEN Erase(sigs, args[2], level)
               ELSE App(Erase(sigs, Spine(e).head, level), [i \in DOMAIN args |-> arg(i)])
      [] level # EXACT /\ Tag(e) = "s" -> <<"s", Star>>
      [] level # EXACT /\ Tag(e) \in {"c", "n", "t"} ->
            IF level = SHAPE THEN Hole
            ELSE IF Tag(e) = "c" THEN <<"c", e[2], Erased(e[3], level)>> ELSE e
      [] level # EXACT /\ Tag(e) \in {"l", "p"} ->
            <<Tag(e),
              IF HolesDomain(sigs, e[4], e[2], level) THEN Hole ELSE Erase(sigs, e[2], level),
              Erase(sigs, e[3], level), ErasedInfo(e[4], level)>>
      [] OTHER -> Rebuild(e, [i \in DOMAIN Parts(e) |-> Erase(sigs, Parts(e)[i], level)])
=============================================================================
