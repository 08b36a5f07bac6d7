---------------------------- MODULE SgrReference ----------------------------
(***************************************************************************)
(* What "CSI ... m" means, stated without execute_sgr's loop: the          *)
(* parameter list is cut into settings, and each attribute has the value   *)
(* of the last setting that touches it. Used to check execute_sgr.         *)
(***************************************************************************)
EXTENDS Terminal

(* "38;5;n" and "48;5;n" at place i are one setting.                       *)
Extended(params, i) ==
  params[i] \in {38, 48} /\ i + 2 \in DOMAIN params /\ params[i + 1] = 5

(* The list cut into settings: the places where one starts, which are the  *)
(* first one and every place that the setting before reaches up to. Every  *)
(* parameter outside an extended colour is a setting of its own.           *)
IsCut(S, params) ==
  \A i \in DOMAIN params :
    i \in S <=> \/ i = 1
                \/ i - 1 \in S /\ ~ Extended(params, i - 1)
                \/ i - 3 \in S /\ Extended(params, i - 3)

Settings(params) == CHOOSE S \in SUBSET DOMAIN params : IsCut(S, params)

(* The settings that give a value to a colour, and the value they give;    *)
(* base is 30 for the foreground and 40 for the background.                *)
SetsColor(params, i, base) ==
  \/ params[i] \in {0, base + 9} \cup base .. base + 7
  \/ params[i] = base + 8 /\ Extended(params, i)

ColorSet(params, i, base, default) ==
  CASE params[i] = base + 8         -> params[i + 2] % 256
    [] params[i] \in {0, base + 9}  -> default
    [] OTHER                        -> params[i] - base

Color(params, base, default, old) ==
  LET touching == {i \in Settings(params) : SetsColor(params, i, base)}
  IN IF touching = {} THEN old ELSE ColorSet(params, Max(touching), base, default)

(* The parameters that turn a flag on and off.                             *)
OnCode  == [bold |-> 1, underline |-> 4, blink |-> 5, reverse |-> 7]
OffCode == [bold |-> 22, underline |-> 24, blink |-> 25, reverse |-> 27]

HasFlag(params, f, old) ==
  LET touching == {i \in Settings(params) : params[i] \in {0, OnCode[f], OffCode[f]}}
  IN IF touching = {} THEN f \in old ELSE params[Max(touching)] = OnCode[f]

(* A sequence without a parameter is "CSI 0 m".                            *)
Reference(list, old) ==
  LET params == IF list = <<>> THEN <<0>> ELSE list
  IN [fg_color |-> Color(params, 30, 7, old.fg_color),
      bg_color |-> Color(params, 40, 0, old.bg_color),
      attrs    |-> {f \in Flags : HasFlag(params, f, old.attrs)}]

(* Terminating the sequence being read with 'm' would give every attribute *)
(* the value of the last setting that touches it: an extended colour's     *)
(* index is never taken for a setting of its own, one that is cut short by *)
(* the end of the list is not read past it, and settings do not leak into  *)
(* one another. This is execute_sgr (src/parser.c).                        *)
SgrLastSettingWins ==
  InCsi => LET t == Closed(term)
           IN SgrAttrs(t) =
                Reference([i \in 1 .. t.csi_param_count |-> t.csi_params[i - 1]],
                          t.current_attrs)

=============================================================================
