----------------------------- MODULE MCHardware -----------------------------
EXTENDS HardwareLadderProperties

Config(type) == [type |-> type, deviceContext |-> TRUE]

\* libavcodec's order is not the order of preference; one configuration has no
\* device context and one type comes twice.
Both == <<Config("cuda"), [type |-> "vaapi", deviceContext |-> FALSE], Config("vaapi"), Config("cuda")>>

Setting(policy, io, faults) ==
  [policy |-> policy, codec |-> "hevc", pixels |-> 1280 * 720, configs |-> Both, wanted |-> "any", io |-> io, faults |-> faults]

HardwareFaults == {"device", "open", "decline", "fault", "download"}

\* Every policy on a source that seeks, a pipe and one that only re-opens.  What
\* may fail leaves out a re-open under hardware.
Sound == {
  Setting("preferHardware", "seekable", HardwareFaults \cup {"error", "software"}),
  Setting("requireHardware", "seekable", HardwareFaults \cup {"error"}),
  Setting("automatic", "seekable", HardwareFaults),
  [Setting("automatic", "seekable", HardwareFaults) EXCEPT !.pixels = 1280 * 719],
  [Setting("preferHardware", "seekable", HardwareFaults) EXCEPT !.wanted = "vdpau"],
  [Setting("preferHardware", "seekable", HardwareFaults) EXCEPT !.wanted = "cuda"],
  [Setting("automatic", "seekable", HardwareFaults) EXCEPT !.codec = "h264", !.pixels = 3840 * 2160],
  Setting("preferHardware", "pipe", HardwareFaults),
  Setting("requireHardware", "pipe", HardwareFaults),
  Setting("preferHardware", "reopenable", {"decline", "fault", "download"}),
  Setting("softwareOnly", "reopenable", {"reopen", "software", "error"}),
  Setting("softwareOnly", "seekable", {"seek", "reopen", "software"})}

\* Hardware that fails on a source that can be re-opened, and may refuse.
Closing == {Setting("preferHardware", "reopenable", {"download", "reopen"})}

\* A fault in the middle of an exact request.
Midway == {Setting("preferHardware", "seekable", {"fault"})}

\* A device that cannot be created again.
Required == {Setting("requireHardware", "seekable", {"device", "download"})}

=============================================================================
