----------------------------- MODULE ContentCheck -----------------------------
(***************************************************************************)
(* What an artifact's check accepts (src/src/check.rs; validate of         *)
(* src/src/store/mod.rs).                                                  *)
(*                                                                         *)
(* A body is a sequence of tokens where the code has bytes: "sp" is white  *)
(* space, "bom" the byte order mark, "page" an opening tag that betrays    *)
(* HTML at the start only (<!doctype html, <head, <body), "form" one that  *)
(* does anywhere (<form, <html), and every other token is data.  A digest  *)
(* is the body it names.                                                   *)
(*                                                                         *)
(* A check is the set of leaves of its tree, for an All accepts what each  *)
(* of them accepts:                                                        *)
(*   [kind |-> "Magic", prefixes, trim]   [kind |-> "NotHtml"]             *)
(*   [kind |-> "MinBytes", min]           [kind |-> "Sha256", digest]      *)
(*   [kind |-> "Custom", accepts]                                          *)
(***************************************************************************)
EXTENDS Integers, SequencesExt

CONSTANTS
    HtmlWindow, \* how far NotHtml looks
    NoPin       \* an artifact without a size pin

From(s, ok(_)) == IF \E i \in DOMAIN s : ok(s[i])
                  THEN SubSeq(s, SelectInSeq(s, ok), Len(s)) ELSE <<>>

\* trim_ascii_start
TrimStart(s) == From(s, LAMBDA t : t # "sp")

Leading(leaf, s) == IF leaf.trim THEN TrimStart(s) ELSE s

IsHtml(s) ==
    LET head  == SubSeq(s, 1, IF Len(s) < HtmlWindow THEN Len(s) ELSE HtmlWindow)
        start == TrimStart(From(head, LAMBDA t : t # "bom"))
    IN \/ start # <<>> /\ Head(start) = "page"
       \/ \E i \in DOMAIN head : head[i] = "form"

\* Mutant: the signature must have arrived already.
PrefixHasSignature(leaf, head) ==
    CASE leaf.kind = "NotHtml" -> ~IsHtml(head)
      [] leaf.kind = "Magic"   ->
             \E p \in leaf.prefixes : IsPrefix(p, Leading(leaf, head))
      [] OTHER -> TRUE

\* check_prefix: what the head of a body decides.
PassesPrefix(leaf, head) ==
    CASE leaf.kind = "NotHtml" -> ~IsHtml(head)
      [] leaf.kind = "Magic"   ->
             \E p \in leaf.prefixes : \/ IsPrefix(p, Leading(leaf, head))
                                      \/ IsPrefix(Leading(leaf, head), p)
      [] OTHER -> TRUE

\* check_file and check_reader.  Magic without a signature, or with an
\* empty one, accepts nothing.
PassesFile(leaf, body) ==
    CASE leaf.kind = "NotHtml"  -> ~IsHtml(body)
      [] leaf.kind = "Magic"    -> /\ <<>> \notin leaf.prefixes
                                   /\ \E p \in leaf.prefixes :
                                         IsPrefix(p, Leading(leaf, body))
      [] leaf.kind = "MinBytes" -> Len(body) >= leaf.min
      [] leaf.kind = "Sha256"   -> body = leaf.digest
      [] leaf.kind = "Custom"   -> body \in leaf.accepts

CheckPrefix(check, head) == \A leaf \in check : PassesPrefix(leaf, head)

\* validate: the size pin, every digest pin, then the rest of the tree.
Validate(size, check, body) ==
    /\ size # NoPin => Len(body) = size
    /\ \A leaf \in check : PassesFile(leaf, body)
===============================================================================
