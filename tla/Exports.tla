------------------------------- MODULE Exports -------------------------------
(***************************************************************************)
(* The two sides of each exported call: what the function of goneonize     *)
(* answers, and what neonize/_binder.py declares that it answers.          *)
(***************************************************************************)
EXTENDS TLC

\* returns: "bytes" is a BytesReturn in C memory, "text" a C string, "value" a
\*   bool or nothing, "pointer" the address of a struct in Go's own memory.
\* fails: it may report an error in its answer.
\* empty: its answer may have no field set, and then marshals to zero bytes.
\* changes: when it does not fail, something others can see has changed.
\* client: it looks up clients[id].
Answer == [returns : {"bytes", "text", "value", "pointer"}, fails : BOOLEAN,
           empty : BOOLEAN, changes : BOOLEAN, client : BOOLEAN]

Get == [returns |-> "bytes", fails |-> TRUE, empty |-> FALSE, changes |-> FALSE,
        client |-> TRUE]
Make == [Get EXCEPT !.fails = FALSE]
List == [Get EXCEPT !.empty = TRUE]
Do == [Get EXCEPT !.changes = TRUE]
DoList == [Do EXCEPT !.empty = TRUE]
Set == [Do EXCEPT !.returns = "text"]
Name == [Make EXCEPT !.returns = "text"]
Flag == [Make EXCEPT !.returns = "value"]
Unfinished == [Get EXCEPT !.client = FALSE]

Exports1 ==
  [GetPNFromLID |-> Get, GetLIDFromPN |-> Get, Upload |-> Get,
   UploadNewsletter |-> Get, GenerateMessageID |-> Name, SendMessage |-> Do]

Exports2 ==
  [Disconnect |-> Flag, DownloadAny |-> Get, DownloadMediaWithPath |-> Get,
   IsOnWhatsApp |-> List, IsConnected |-> Flag, IsLoggedIn |-> Flag,
   GetUserInfo |-> List, GetGroupInfo |-> Get]

Exports3 ==
  [GetGroupInfoFromInvite |-> Get, GetGroupInfoFromLink |-> Get,
   GetGroupRequestParticipants |-> List, GetLinkedGroupsParticipants |-> Get,
   SetGroupName |-> Set, SetGroupPhoto |-> Do, SetProfilePhoto |-> Do,
   LeaveGroup |-> Set]

Exports4 ==
  [GetGroupInviteLink |-> Do, JoinGroupWithLink |-> Do,
   JoinGroupWithInvite |-> Set, LinkGroup |-> Set, SendChatPresence |-> Set,
   BuildRevoke |-> Make, BuildPollVoteCreation |-> Make,
   CreateNewsletter |-> Do, FollowNewsletter |-> Set]

Exports5 ==
  [GetNewsletterInfo |-> Get, GetNewsletterInfoWithInvite |-> Get,
   GetNewsletterMessageUpdate |-> List, GetNewsletterMessages |-> List,
   Logout |-> Set, MarkRead |-> Set, NewsletterMarkViewed |-> Set,
   NewsletterSendReaction |-> Set]

Exports6 ==
  [NewsletterSubscribeLiveUpdates |-> Do, NewsletterToggleMute |-> Set,
   ResolveBusinessMessageLink |-> Get, ResolveContactQRLink |-> Get,
   SendAppState |-> Set, SetDefaultDisappearingTimer |-> Set,
   SetDisappearingTimer |-> Set, SetForceActiveDeliveryReceipts |-> Flag,
   SetGroupAnnounce |-> Set, SetGroupLocked |-> Set, SetGroupTopic |-> Set]

Exports7 ==
  [SetPrivacySetting |-> Do, SetPassive |-> Set, SetStatusMessage |-> Set,
   SubscribePresence |-> Set, UnfollowNewsletter |-> Set, UnlinkGroup |-> Set,
   UpdateBlocklist |-> Do, UpdateGroupParticipants |-> DoList]

Exports8 ==
  [UpdateGroupRequestParticipants |-> DoList, GetPrivacySettings |-> Make,
   GetProfilePicture |-> List, GetStatusPrivacy |-> List, GetSubGroups |-> List,
   GetSubscribedNewsletters |-> List, GetUserDevices |-> List,
   GetBlocklist |-> Get]

\* GetMessage and GetMedia answer with the address of a Go struct.
Exports9 ==
  [BuildPollVote |-> Get, BuildReaction |-> Make, CreateGroup |-> Do,
   GetJoinedGroups |-> List, GetMe |-> Make, GetContactQRLink |-> Do,
   GetMessageForRetry |-> Make,
   GetMessage |-> [Unfinished EXCEPT !.returns = "pointer"],
   GetMedia |-> [Unfinished EXCEPT !.returns = "pointer"]]

Exports10 ==
  [PutPinned |-> Set, PutArchived |-> Set,
   GetAllDevices |-> [Name EXCEPT !.client = FALSE], SendPresence |-> Set,
   DecryptPollVote |-> Get, SendFBMessage |-> Do]

\* The scheduler is not there yet: each answer is an error.
Exports11 ==
  [CreateSchedulerTemplate |-> Unfinished, ListSchedulerTemplates |-> Unfinished,
   CreateSchedulerSchedule |-> Unfinished, ListSchedulerSchedules |-> Unfinished]

ContactExports ==
  [PutPushName |-> Do, PutContactName |-> Set, PutAllContactNames |-> Set,
   GetContact |-> Get, GetAllContacts |-> List]

ChatSettingsExports == [PutMutedUntil |-> Set, GetChatSettings |-> Get]

Answers ==
  Exports1 @@ Exports2 @@ Exports3 @@ Exports4 @@ Exports5 @@ Exports6
    @@ Exports7 @@ Exports8 @@ Exports9 @@ Exports10 @@ Exports11
    @@ ContactExports @@ ChatSettingsExports

-----------------------------------------------------------------------------
(* restype, by which ctypes converts an answer: a pointer to Bytes, bytes or *)
(* None, a bool, an int where nothing is declared.                           *)

Are(kind, exports) == [x \in exports |-> kind]

Declared1 ==
  Are("bytes", {"GetLIDFromPN", "GetPNFromLID", "Upload", "DownloadAny",
    "DownloadMediaWithPath", "GetGroupInfo", "SetGroupPhoto", "SetProfilePhoto",
    "GetGroupInviteLink", "JoinGroupWithLink", "SendMessage"})
  @@ Are("text", {"LeaveGroup", "SetGroupName", "SendChatPresence"})

Declared2 ==
  Are("bytes", {"BuildRevoke", "CreateGroup", "IsOnWhatsApp", "GetUserInfo",
    "GetMe", "BuildPollVoteCreation", "BuildPollVote", "BuildReaction",
    "CreateNewsletter", "GetBlocklist", "GetContactQRLink",
    "GetGroupInfoFromInvite", "GetGroupInfoFromLink",
    "GetGroupRequestParticipants", "GetJoinedGroups",
    "GetLinkedGroupsParticipants", "GetNewsletterInfo",
    "GetNewsletterInfoWithInvite", "GetNewsletterMessageUpdate",
    "GetNewsletterMessages", "GetPrivacySettings", "GetProfilePicture",
    "GetStatusPrivacy", "GetSubGroups", "GetSubscribedNewsletters",
    "GetUserDevices", "LinkGroup"})
  @@ Are("text", {"GenerateMessageID", "FollowNewsletter", "JoinGroupWithInvite"})
  @@ Are("value", {"IsConnected", "IsLoggedIn"})

Declared3 ==
  Are("bytes", {"NewsletterSubscribeLiveUpdates", "ResolveContactQRLink",
    "ResolveBusinessMessageLink", "SetPrivacySetting", "UpdateBlocklist",
    "UpdateGroupParticipants", "GetMessageForRetry"})
  @@ Are("text", {"Logout", "MarkRead", "NewsletterMarkViewed",
    "NewsletterSendReaction", "NewsletterToggleMute", "SendAppState",
    "SetDefaultDisappearingTimer", "SetDisappearingTimer", "SetGroupAnnounce",
    "SetGroupLocked", "SetGroupTopic", "SetPassive", "SetStatusMessage",
    "SubscribePresence", "UnfollowNewsletter", "UnlinkGroup"})
  @@ Are("value", {"SetForceActiveDeliveryReceipts"})

\* PutPushName is declared twice; the second time it takes the place of
\* PutContactName, which keeps the default.
Declared4 ==
  Are("bytes", {"GetContact", "GetAllContacts", "GetChatSettings",
    "SendFBMessage", "DecryptPollVote", "UpdateGroupRequestParticipants"})
  @@ Are("text", {"PutPushName", "PutAllContactNames", "PutMutedUntil",
    "PutPinned", "PutArchived", "GetAllDevices", "SendPresence"})

Declared ==
  Declared1 @@ Declared2 @@ Declared3 @@ Declared4
    @@ Are("int", DOMAIN Answers)
==============================================================================
