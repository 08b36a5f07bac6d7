---------------------------- MODULE MCScreenshot ----------------------------
(***************************************************************************)
(* Cells for model checking module Screenshot: parentheses, a backtick     *)
(* (which is escaped), a backslash and a bracket in three styles that share *)
(* no annotation; colour 200 has no name. A screen with a bracket is not   *)
(* legible, unless the bracket is in a row that is not asked for.          *)
(***************************************************************************)
EXTENDS Screenshot

Plain    == DefaultAttrs
Heading  == [DefaultAttrs EXCEPT !.attrs = {"bold", "underline"}, !.fg_color = 1]
Selected == [DefaultAttrs EXCEPT !.attrs = {"reverse"}, !.bg_color = 200]

StyledCells ==
  {Glyph(40, Plain), Glyph(Backtick, Plain), Glyph(Backtick, Heading),
   Glyph(Backslash, Selected), Glyph(91, Plain)}

AnyStart == {-1, 0, 1, 2}
AnyEnd == {-1, 0, 1, 2}

=============================================================================
