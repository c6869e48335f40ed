------------------------------- MODULE MCUpdates -------------------------------
(* Instances of ClientUpdates.                                              *)
EXTENDS ClientUpdates

Wide == DefaultFormat
Narrow == [DefaultFormat EXCEPT !.bits_per_pixel = 16, !.depth = 16,
             !.red_max = 31, !.green_max = 63, !.blue_max = 31,
             !.red_shift = 11, !.green_shift = 5]
Turned == [Narrow EXCEPT !.red_shift = 0, !.blue_shift = 11]
Packed == [Narrow EXCEPT !.bits_per_pixel = 24]

List(types, count) == [types |-> types, count |-> count]
Plain == List({Raw}, 0)
Full == List({Raw, DesktopSize, Cursor}, 3)
(* ... and ZRLE, which api-design.md:698 lists and the library cannot decode. *)
Longest == List({16, Raw}, 65535)

Created == {[pixel_format |-> NULL, encodings |-> Full],
            [pixel_format |-> NULL, encodings |-> Longest],
            [pixel_format |-> Narrow, encodings |-> Plain]}

Request(n) == [call |-> "request_update", incremental |-> n]
Reformat(f) == [call |-> "set_pixel_format", format |-> f]
Encode(l) == [call |-> "set_encodings", list |-> l]
Point == [call |-> "send_pointer_event"]

App(main, finished, other) ==
  [c \in {"main", "framebuffer_update_finished", "framebuffer_update",
          "desktop_resize", "cursor_update", "bell"} |->
     CASE c = "main" -> main
       [] c = "framebuffer_update_finished" -> finished
       [] c \in DOMAIN other -> other[c]
       [] OTHER -> {<<>>}]

(* examples/simple_client.c: main, its callback, and the callbacks it sets. *)
ExampleMain == {<<Request(0)>>}
ExampleFinished == {<<Request(1)>>}
Example == App(ExampleMain, ExampleFinished, <<>>)

(* Asks again as soon as it is resized, and moves the pointer when it hears *)
(* the bell, without regard to what is under way.                           *)
Eager == App({<<Request(0)>>}, {<<Request(1)>>},
             [bell |-> {<<Point>>}, desktop_resize |-> {<<Request(0)>>}])

(* Changes format and encodings between an update and the next request, the *)
(* incremental flag being any int.                                          *)
Choosy == App({<<Request(256)>>},
              {<<Reformat(f), Request(0)>> : f \in {Wide, Turned}}
                \cup {<<Reformat(Packed), Request(1)>>, <<Point, Request(1)>>,
                      <<Encode(Full), Request(256)>>},
              <<>>)

Apps == [example |-> Example, eager |-> Eager, choosy |-> Choosy]
ExampleOnly == [example |-> Example]

(* What the theorems assume of the applications, where they assume anything. *)
ASSUME MCApplications ==
  /\ DOMAIN Applications \subseteq Thorough
  /\ CountsFit
  /\ Patient = DOMAIN Applications \ {"eager"}

Geometry == {<<1, 2>>, <<2, 1>>, <<2, 2>>}
Shapes == {<<9, 1>>}
=============================================================================
