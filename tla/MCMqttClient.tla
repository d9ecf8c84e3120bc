--------------------------- MODULE MCMqttClient ----------------------------
(* Two of the LEDs; the delays in seconds, with a maximum of three and room  *)
(* for handshakes that fail beyond it.                                       *)
EXTENDS MqttClient
MCLeds == 0..1
=============================================================================
