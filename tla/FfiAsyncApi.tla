---------------------------- MODULE FfiAsyncApi ----------------------------
(***************************************************************************)
(* The asynchronous requests of FfiClient (src/src/ffi_client.cpp).  Every *)
(* xxxAsync method has the same shape, so a request is described by the    *)
(* three things in which they differ:                                      *)
(*   callback   the FfiEvent case its match lambda accepts;                *)
(*   rejected   the answers its handler lambda turns into an error;        *)
(*   style      how an error reaches the caller: "throws" (an exception in *)
(*              the future, or thrown when the request cannot be sent) or  *)
(*              "result" (the future holds Result::failure).               *)
(* An answer is what the Rust side put in the callback: a result, a        *)
(* non-empty error, an error field that is present but empty, or neither.  *)
(***************************************************************************)

Answers == {"result", "error", "empty_error", "nothing"}

connectAsync == [callback |-> "kConnect", rejected |-> {"error"}, style |-> "throws"]

\* The callback carries no error field: the handler always sets a value.
disconnectAsync == [callback |-> "kDisconnect", rejected |-> {}, style |-> "throws"]

getTrackStatsAsync == [callback |-> "kGetStats", rejected |-> {"error"}, style |-> "throws"]

getSessionStatsAsync ==
  [callback |-> "kGetSessionStats", rejected |-> {"error", "empty_error", "nothing"}, style |-> "throws"]

publishTrackAsync ==
  [callback |-> "kPublishTrack", rejected |-> {"error", "empty_error", "nothing"}, style |-> "throws"]

unpublishTrackAsync == [callback |-> "kUnpublishTrack", rejected |-> {"error"}, style |-> "throws"]

publishDataAsync == [callback |-> "kPublishData", rejected |-> {"error"}, style |-> "throws"]

publishDataTrackAsync ==
  [callback |-> "kPublishDataTrack", rejected |-> {"error", "empty_error", "nothing"}, style |-> "result"]

publishSipDtmfAsync == [callback |-> "kPublishSipDtmf", rejected |-> {"error"}, style |-> "throws"]

setLocalMetadataAsync == [callback |-> "kSetLocalMetadata", rejected |-> {"error"}, style |-> "throws"]

captureAudioFrameAsync == [callback |-> "kCaptureAudioFrame", rejected |-> {"error"}, style |-> "throws"]

performRpcAsync == [callback |-> "kPerformRpc", rejected |-> {"error", "empty_error"}, style |-> "throws"]

sendStreamHeaderAsync == [callback |-> "kSendStreamHeader", rejected |-> {"error"}, style |-> "throws"]

sendStreamChunkAsync == [callback |-> "kSendStreamChunk", rejected |-> {"error"}, style |-> "throws"]

sendStreamTrailerAsync == [callback |-> "kSendStreamTrailer", rejected |-> {"error"}, style |-> "throws"]

defineSchemaAsync == [callback |-> "kDefineSchema", rejected |-> {"error"}, style |-> "result"]

getSchemaAsync == [callback |-> "kGetSchema", rejected |-> {"error"}, style |-> "result"]

AsyncApis ==
  { connectAsync, disconnectAsync, getTrackStatsAsync, getSessionStatsAsync, publishTrackAsync,
    unpublishTrackAsync, publishDataAsync, publishDataTrackAsync, publishSipDtmfAsync,
    setLocalMetadataAsync, captureAudioFrameAsync, performRpcAsync, sendStreamHeaderAsync,
    sendStreamChunkAsync, sendStreamTrailerAsync, defineSchemaAsync, getSchemaAsync }

\* Mutant of ExtractAsyncId: the cases of the schema requests were forgotten.
ExtractAsyncIdIncomplete ==
  { "kConnect", "kDisconnect", "kPublishTrack", "kUnpublishTrack", "kPublishData", "kCaptureAudioFrame",
    "kSetLocalMetadata", "kGetStats", "kGetSessionStats", "kPublishSipDtmf", "kPerformRpc",
    "kSendStreamHeader", "kSendStreamChunk", "kSendStreamTrailer", "kPublishDataTrack" }

\* The event cases in which pushEvent looks for the async id of a pending operation; an
\* event of any other case is only forwarded to the listeners.
ExtractAsyncId ==
  { "kConnect", "kDisconnect", "kDispose", "kPublishTrack", "kUnpublishTrack", "kPublishData",
    "kPublishTranscription", "kCaptureAudioFrame", "kSetLocalMetadata", "kSetLocalName",
    "kSetLocalAttributes", "kGetStats", "kGetSessionStats", "kPublishSipDtmf", "kChatMessage",
    "kPerformRpc", "kSendStreamHeader", "kSendStreamChunk", "kSendStreamTrailer",
    "kByteStreamReaderReadAll", "kByteStreamReaderWriteToFile", "kByteStreamOpen",
    "kByteStreamWriterWrite", "kByteStreamWriterClose", "kSendFile", "kTextStreamReaderReadAll",
    "kTextStreamOpen", "kTextStreamWriterWrite", "kTextStreamWriterClose", "kSendText",
    "kSendBytes", "kPublishDataTrack", "kDefineSchema", "kGetSchema" }
=============================================================================
