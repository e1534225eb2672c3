------------------------------ MODULE MC_Editor ------------------------------
(* Five small pages for TLC.                                               *)
EXTENDS Surface

ch(c, g) == [c |-> c, g |-> g, m |-> {}]
bold(c, g) == [c |-> c, g |-> g, m |-> {<<"bold", "on">>}]
link(c, g) == [c |-> c, g |-> g, m |-> {<<"link", "href">>}]
blk(id, kind, depth, text) ==
  [id |-> id, kind |-> kind, attr |-> DefaultAttr(kind), depth |-> depth,
   rich |-> HasInline(kind), text |-> text]

(* marked text with a child, a divider, an empty to-do *)
mcOutline == <<blk(1, "paragraph", 0, <<ch(1, "x"), bold(2, "x")>>), blk(2, "bullet", 1, <<link(3, "x")>>),
               blk(3, "divider", 0, <<>>), blk(4, "to-do", 0, <<>>)>>
(* shortcuts about to complete: a heading and bold text *)
mcShortcuts == <<blk(1, "paragraph", 0, <<ch(1, "#")>>),
                 blk(2, "paragraph", 0, <<ch(2, "*"), link(3, "x"), ch(4, "*")>>)>>
(* words in a heading, code, and a mention query *)
mcWords == <<blk(1, "heading", 0, <<ch(1, "x"), ch(2, " "), link(3, "x")>>), blk(2, "code", 0, <<>>),
             blk(3, "paragraph", 0, <<ch(4, "@")>>)>>
(* a first child with a child of its own, and a sibling below it *)
mcNested == <<blk(1, "bullet", 0, <<ch(1, "x")>>), blk(2, "bullet", 1, <<bold(2, "x")>>),
              blk(3, "bullet", 2, <<ch(3, "x")>>), blk(4, "paragraph", 1, <<ch(4, "x")>>)>>
(* a page that begins with a divider *)
mcDivided == <<blk(1, "divider", 0, <<>>), blk(2, "quote", 0, <<ch(1, "x"), bold(2, "x")>>)>>
mcPages == {mcOutline, mcShortcuts, mcWords, mcNested, mcDivided}
mcTypings == {<<"x">>, <<" ">>}
=============================================================================
