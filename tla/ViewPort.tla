------------------------------- MODULE ViewPort -------------------------------
(***************************************************************************)
(* The keys, and the names they have for the callback of a view port       *)
(* (applications/services/gui/view_port.c): while the view port is         *)
(* vertical, the arrows of every event are turned with the screen when the *)
(* event is delivered.                                                     *)
(***************************************************************************)

InputKeys == {"Up", "Down", "Right", "Left", "Ok", "Back"}

\* view_port_rotate_buttons.
Rotated(k) ==
  CASE k = "Up"    -> "Right"
    [] k = "Down"  -> "Left"
    [] k = "Right" -> "Down"
    [] k = "Left"  -> "Up"
    [] OTHER       -> k

Arrows == {k \in InputKeys : Rotated(k) # k}

\* The key that view_port_input gives to the callback.
NameOf(k, vertical) == IF vertical THEN Rotated(k) ELSE k
NamesOf(keys, vertical) == {NameOf(k, vertical) : k \in keys}

\* The keys that are held after an event of key k, of those held before.
HeldAfter(keys, type, k) ==
  CASE type = "Press"   -> keys \cup {k}
    [] type = "Release" -> keys \ {k}
    [] type = "Tap"     -> keys
===============================================================================
