-------------------------------- MODULE MCSdk -------------------------------
(***************************************************************************)
(* Instances of the SDK small enough for TLC.                              *)
(***************************************************************************)
EXTENDS SdkProperties

CONSTANTS t1, t2, c1, c2

One == {t1}
Two == {t1, t2}
OneContext == {c1}
TwoContexts == {c1, c2}

DeviceIds == (c1 :> 1) @@ (c2 :> 2)
Device == (c1 :> 1)

(* The server: an integer, a boolean stored as an integer, a string and a  *)
(* binary of three bytes; images of one byte, of a whole number of chunks  *)
(* of two and of three bytes, and of neither.                              *)
MCParams == 1 :> Uint(5) @@ 2 :> Uint(1) @@ 3 :> Bytes(41, 0, 3) @@ 4 :> Bytes(42, 0, 3)
MCImages == 1 :> 1 @@ 4 :> 4 @@ 5 :> 5 @@ 6 :> 6
MCDesired == 1 :> Uint(4) @@ 2 :> Uint(5)

(* Work buffers: a null one, one too small, one misaligned, one that will  *)
(* do.                                                                     *)
MCWorkBuffers == {[size |-> 512, addr |-> 0], [size |-> 511, addr |-> 16],
                  [size |-> 600, addr |-> 4], [size |-> 512, addr |-> 8]}

NoFaults == {}

(* How many calls each thread makes. *)
B(m, n) == t1 :> m @@ t2 :> n
TwoEach == B(2, 2)
SixOnly == B(6, 0)
FourOne == B(4, 1)

-----------------------------------------------------------------------------
(* Calls.                                                                  *)
GetParameter(c, id, type, size) ==
  [op |-> "get_parameter", ctx |-> c, ptr |-> TRUE, id |-> id, type |-> type, size |-> size]
GetInfo(c) ==
  [op |-> "get_device_info", ctx |-> c, ptr |-> TRUE, id |-> 0, type |-> 0, size |-> 0]
SetInfo(c, fw, status) ==
  [op |-> "set_device_info", ctx |-> c, ptr |-> TRUE, id |-> fw, type |-> status, size |-> 0]
Download_initialize(c, fw, size) ==
  [op |-> "download_initialize", ctx |-> c, ptr |-> TRUE, id |-> fw, type |-> 0, size |-> size]
GetChunk(c) ==
  [op |-> "get_chunk", ctx |-> c, ptr |-> TRUE, id |-> 0, type |-> 0, size |-> 0]
FinishDownload(c) ==
  [op |-> "finish", ctx |-> c, ptr |-> TRUE, id |-> 0, type |-> 0, size |-> 0]
Gateway(c, dev, size) ==
  [op |-> "gateway", ctx |-> c, ptr |-> TRUE, id |-> dev, type |-> 0, size |-> size]
NullArgument(k) == [k EXCEPT !.ptr = FALSE]

-----------------------------------------------------------------------------
(* Two threads sharing one context, every operation but the download.      *)
SharedCalls ==
  t1 :> {GetParameter(c1, 1, INTEGER, 8), GetParameter(c1, 3, STRING_TYPE, 4),
         GetParameter(c1, 9, INTEGER, 8), SetInfo(c1, 3, 7), GetParameter(c1, 3, STRING_TYPE, 3)}
  @@
  t2 :> {GetParameter(c1, 4, BINARY, 4), GetParameter(c1, 2, BOOLEAN_TYPE, 1), GetInfo(c1),
         SetInfo(c1, 8, 7), Gateway(c1, 2, 128), NullArgument(Gateway(c1, 2, 128))}

(* One thread downloads: sessions on two firmwares with room for two bytes *)
(* a chunk, or for three, and a buffer that is too small.                  *)
StaleCalls ==
  t1 :> {Download_initialize(c1, 4, 150), Download_initialize(c1, 5, 152),
         Download_initialize(c1, 4, 140), GetChunk(c1), FinishDownload(c1)}
  @@
  t2 :> {}

(* One thread downloads images that are and are not a multiple of the      *)
(* chunk size, through buffers of both sizes; another reports progress, or *)
(* forwards a message, through the same context.                           *)
DownloadCalls ==
  t1 :> {Download_initialize(c1, 4, 150), Download_initialize(c1, 5, 150),
         Download_initialize(c1, 5, 152), Download_initialize(c1, 4, 2),
         GetChunk(c1), FinishDownload(c1)}
  @@
  t2 :> {SetInfo(c1, 5, 1), Gateway(c1, 2, 128)}

(* A download of a firmware the server does not have, and nothing before.  *)
MissingCalls == t1 :> {Download_initialize(c1, 9, 150), GetChunk(c1)} @@ t2 :> {}

(* Two threads, each downloading through a context of its own.             *)
TwoDownloads ==
  t1 :> {Download_initialize(c1, 4, 150), GetChunk(c1)} @@
  t2 :> {Download_initialize(c2, 9, 150), GetChunk(c2)}

(* A binary parameter read into buffers of its size and around it.         *)
BinaryCalls == t1 :> {GetParameter(c1, 4, BINARY, n) : n \in 2..4} @@ t2 :> {}
OneOnly == B(1, 0)

(* The largest buffer that leaves a chunk no byte.                         *)
EmptyChunkCalls == t1 :> {Download_initialize(c1, 4, 147), GetChunk(c1)} @@ t2 :> {}
TwoOnly == B(2, 0)

(* A device and a firmware whose numbers take several bytes, an image that *)
(* fills a chunk, and a buffer that would be large enough for a message    *)
(* that carries nothing but the data.                                      *)
LargeId == (c1 :> 70000)
LargeImages == 300 :> 600
LargeDesired == 70000 :> Uint(300)
LargeCalls == t1 :> {Download_initialize(c1, 300, 660), GetChunk(c1)} @@ t2 :> {}
=============================================================================
