------------------------------- MODULE MCClient -------------------------------
(* Small instances of OvncClient.                                           *)
EXTENDS OvncClient

AllSites == Sites

(* Every site but the reallocation of ovnc_client_set_pixel_format.         *)
Absorbed == Sites \ {"reformat"}

NoSite == {}

(* Callbacks after which the handler only unwinds.                          *)
Final == {"framebuffer_update_finished", "color_map_update", "bell",
          "server_cut_text", "disconnected"}
AnyEvent == Events

(* With the library's own framebuffer, with the application's, with neither *)
(* callback.                                                                *)
Installed == {Events, Callbacks, {}}
OwnBuffer == {Events}
=============================================================================
