--------------------------- MODULE TableListing ---------------------------
(***************************************************************************)
(* ExceptionTable on tables that come with their listing: the entries, and *)
(* for each byte the number it belongs to.  Written says when the bytes    *)
(* are those of the listing, HandlersWritten what stands around the        *)
(* handlers of compiled try statements; TryCompiler writes such tables and *)
(* such code.                                                              *)
(***************************************************************************)
EXTENDS ExceptionTable

\* A table that is no compiler's, or not known to be, has an empty layout.
IsWritten(c) == c.whole \/ c.layout # <<>>

\* Ranges of whole instructions.
Listed(e) ==
  /\ e \in Entries
  /\ e.start % 2 = 0 /\ e.end % 2 = 0 /\ e.target % 2 = 0
  /\ e.start <= e.end

Number(e, f) ==
  CASE f = 1 -> e.start \div 2
    [] f = 2 -> (e.end - e.start) \div 2
    [] f = 3 -> e.target \div 2
    [] f = 4 -> 2 * e.depth + (IF e.lasti THEN 1 ELSE 0)

\* A byte belongs to a number of an entry; "value" is the number without the
\* digits of the bytes that follow.
Place(n) == [entry : 1..n, field : 1..4, value : Nat, last : BOOLEAN]

\* The first byte of a number.
IsFirst(layout, p) == p = 1 \/ layout[p - 1].last

\* A number begins where the one before ends.
Begins(layout, p) ==
  LET l == layout[p]
  IN IF p = 1 THEN l.entry = 1 /\ l.field = 1
     ELSE LET b == layout[p - 1]
          IN \/ b.field < 4 /\ l.entry = b.entry /\ l.field = b.field + 1
             \/ b.field = 4 /\ l.entry = b.entry + 1 /\ l.field = 1

\* Six bits to a byte, the highest first.
Shifts(layout, p) ==
  /\ layout[p].entry = layout[p - 1].entry
  /\ layout[p].field = layout[p - 1].field
  /\ layout[p - 1].value = layout[p].value \div 64

\* More bytes of the number and the first byte of the entry are marked.
ByteFor(layout, p) ==
  (layout[p].value % 64)
    + (IF layout[p].last THEN 0 ELSE 64)
    + (IF layout[p].field = 1 /\ IsFirst(layout, p) THEN 128 ELSE 0)

Written(c) ==
  /\ \A i \in DOMAIN c.listing : Listed(c.listing[i])
  /\ c.listing \in Seq(Entries)
  /\ c.layout \in Seq(Place(Len(c.listing)))
  /\ \A p \in 1..Len(c.layout) :
       /\ IF IsFirst(c.layout, p) THEN c.layout[p].value < 64 /\ Begins(c.layout, p)
          ELSE Shifts(c.layout, p)
       /\ c.layout[p].last =>
            c.layout[p].value = Number(c.listing[c.layout[p].entry], c.layout[p].field)
       /\ p <= Len(c.table) => c.table[p] = ByteFor(c.layout, p)
  /\ IF c.listing = <<>> THEN c.layout = <<>>
     ELSE /\ c.layout # <<>>
          /\ LET l == c.layout[Len(c.layout)]
             IN l.last /\ l.field = 4 /\ l.entry = Len(c.listing)
  /\ Len(c.table) <= Len(c.layout)
  /\ c.whole => Len(c.table) = Len(c.layout)

ASSUME ListingsAssumption ==
  \A c \in Codes : c.whole \in BOOLEAN /\ (IsWritten(c) => Written(c))

----------------------------------------------------------------------------
(* Compiled try statements                                                   *)

OpIn(c, off) == IF At(off) \in DOMAIN c.words THEN c.words[At(off)].op ELSE "none"

LandingIn(c, off) == off + SW + c.words[At(off)].arg * SW

\* A handler begins here.
IsHandler(c, off) == OpIn(c, off) = "PUSH_EXC_INFO"

\* It does nothing.
IsEmptyHandler(c, off) ==
  OpIn(c, off + SW) = "POP_TOP" /\ OpIn(c, off + 2 * SW) = "POP_EXCEPT"

Leads(e, off) == e.target = off /\ ~e.lasti

\* Before such a handler a body without an instruction that could raise: its
\* NOP, which nothing protects, and the jump over the handler, to where the
\* handler goes on as well.
IsEmptyBody(c, off) ==
  /\ off >= 2 * SW
  /\ OpIn(c, off - 2 * SW) = "NOP"
  /\ \A e \in {c.listing[i] : i \in DOMAIN c.listing} :
       off - 2 * SW < e.start \/ e.end <= off - 2 * SW
  /\ OpIn(c, off - SW) = "JUMP_FORWARD"
  /\ OpIn(c, off + 3 * SW) = "JUMP_FORWARD"
  /\ LandingIn(c, off - SW) = LandingIn(c, off + 3 * SW)

\* Ranges hold an instruction and are apart.  A handler ends behind POP_EXCEPT;
\* one that does nothing is protected by its cleanup, and its try statement has
\* another one behind it.
HandlersWritten(c) ==
  /\ Apart(c.listing)
  /\ \A i \in DOMAIN c.listing :
       LET off == c.listing[i].start
       IN /\ off < c.listing[i].end
          /\ IsHandler(c, off) => OpIn(c, off + 3 * SW) # "none"
          /\ IsHandler(c, off) /\ IsEmptyHandler(c, off) =>
               /\ c.listing[i].lasti
               /\ OpIn(c, c.listing[i].target) = "COPY"
               /\ \/ \E j \in DOMAIN c.listing : Leads(c.listing[j], off)
                  \/ IsEmptyBody(c, off)

ASSUME HandlersAssumption == \A c \in Codes : c.whole => HandlersWritten(c)

----------------------------------------------------------------------------
(* Properties                                                                *)

\* The first entries of the listing.
AreFirst(es) ==
  /\ Len(es) <= Len(code.listing)
  /\ \A i \in 1..Len(es) : es[i] = code.listing[i]

\* The table ends with the last byte of the n-th entry.
EndsWith(n) ==
  IF code.table = <<>> THEN n = 0
  ELSE LET l == code.layout[Len(code.table)]
       IN l.last /\ l.field = 4 /\ l.entry = n

(* The entries read are those the compiler wrote; of a table cut short they    *)
(* are the first ones, unless the cut is inside an entry, which throws.        *)
ReadsBack ==
  IsWritten(code) =>
    /\ pc = "read" => AreFirst(entries)
    /\ pc \notin {"read", "thrown"} => AreFirst(original) /\ EndsWith(Len(original))
    /\ code.whole /\ pc # "read" => original = code.listing

\* An entry of the body before a handler.
HasBody(off) ==
  \E j \in DOMAIN entries :
    Leads(entries[j], off) /\ entries[j].start < entries[j].end

(* In compiled code each handler whose body the compiler gave no entry, and    *)
(* that does nothing, gets one of its own, apart from all others or inside of  *)
(* one that comes before it, so that the block machine opens its try there;    *)
(* and looking for them throws nothing.                                        *)
EmptyBodiesFound ==
  code.whole => pc # "thrown" /\ (pc = "done" =>
    /\ \A i, j \in DOMAIN entries : i < j =>
         \/ entries[i].end <= entries[j].start
         \/ entries[i].start <= entries[j].start /\ entries[j].end <= entries[i].end
    /\ \A j \in DOMAIN original :
         LET off == original[j].start
         IN IsHandler(code, off) /\ IsEmptyHandler(code, off) => HasBody(off))
=============================================================================
