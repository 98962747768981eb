----------------------------- MODULE SyncMethods -----------------------------
(***************************************************************************)
(* The methods of neonize/client.py as paths of steps.  Arguments, the     *)
(* messages that are built and the classes of the exceptions are left out; *)
(* one mention stands for all mentions of a text.                          *)
(***************************************************************************)
EXTENDS CallSteps, TLC

\* Methods that other methods call.
upload == Maybe(Own) ** Model("Upload")
get_group_info == Model("GetGroupInfo")
get_me == Result("GetMe")
generate_message_id == Told("GenerateMessageID")

_parse_group_mention == Maybe(Caught(get_group_info))

\* No valid link, no image in the preview, an image of another format.
_generate_link_preview == Maybe(Own ** Maybe(Own ** Maybe(Model("Upload"))))

ParsedText == _parse_group_mention ** Maybe(_generate_link_preview)

\* send_message of a Message, which is how the other methods use it.
SendPrepared == Model("SendMessage")

send_message == Maybe(ParsedText) ** SendPrepared
build_reply_message == Maybe(ParsedText)
reply_message == build_reply_message ** SendPrepared
edit_message == SendPrepared
build_revoke == Result("BuildRevoke") | get_me
revoke_message == get_me ** SendPrepared

Builders ==
  [build_poll_vote_creation |-> Model("BuildPollVoteCreation"),
   build_poll_vote          |-> Model("BuildPollVote"),
   build_reaction           |-> Model("BuildReaction")]

build_sticker_message == Own ** upload
send_sticker == build_sticker_message ** SendPrepared
build_video_message == Own ** upload ** _parse_group_mention
send_video == build_video_message ** SendPrepared
build_image_message == Own ** upload ** _parse_group_mention
send_image == build_image_message ** SendPrepared
\* The duration is read only after the upload.
build_audio_message == Own ** upload ** Own
send_audio == build_audio_message ** SendPrepared
build_document_message == Own ** upload ** _parse_group_mention
send_document == build_document_message ** SendPrepared
send_contact == Own ** SendPrepared

\* With a path the content is written to a file.
Downloads ==
  [download_any             |-> Model("DownloadAny") ** Maybe(Own),
   download_media_with_path |-> Model("DownloadMediaWithPath")]

Presences ==
  [send_chat_presence |-> Told("SendChatPresence"),
   is_on_whatsapp     |-> Maybe(Model("IsOnWhatsApp")),
   is_connected       |-> Value("IsConnected"),
   is_logged_in       |-> Value("IsLoggedIn"),
   get_user_info      |-> Model("GetUserInfo")]

\* The request action is a str where the declaration wants bytes.
Groups ==
  [get_group_info_from_link          |-> Model("GetGroupInfoFromLink"),
   update_group_request_participants |-> Refused("UpdateGroupRequestParticipants"),
   get_group_info_from_invite        |-> Model("GetGroupInfoFromInvite"),
   set_group_name                    |-> Told("SetGroupName"),
   set_group_photo                   |-> Model("SetGroupPhoto"),
   set_profile_photo                 |-> Model("SetProfilePhoto"),
   leave_group                       |-> Told("LeaveGroup")]

Invites ==
  [get_group_invite_link  |-> Model("GetGroupInviteLink"),
   join_group_with_link   |-> Model("JoinGroupWithLink"),
   join_group_with_invite |-> Text("JoinGroupWithInvite"),
   link_group             |-> Text("LinkGroup"),
   logout                 |-> Text("Logout")]

\* One of the receipt types is a str.
Newsletters ==
  [mark_read                         |-> Text("MarkRead") | Refused("MarkRead"),
   newsletter_mark_viewed            |-> Text("NewsletterMarkViewed"),
   newsletter_send_reaction          |-> Text("NewsletterSendReaction"),
   newsletter_subscribe_live_updates |-> Model("NewsletterSubscribeLiveUpdates"),
   newsletter_toggle_mute            |-> Text("NewsletterToggleMute"),
   resolve_business_message_link     |-> Model("ResolveBusinessMessageLink")]

Timers ==
  [resolve_contact_qr_link              |-> Model("ResolveContactQRLink"),
   send_app_state                       |-> Text("SendAppState"),
   set_default_disappearing_timer       |-> Text("SetDefaultDisappearingTimer"),
   set_disappearing_timer               |-> Text("SetDisappearingTimer"),
   set_force_activate_delivery_receipts |-> Value("SetForceActiveDeliveryReceipts"),
   set_group_announce                   |-> Text("SetGroupAnnounce"),
   set_group_locked                     |-> Text("SetGroupLocked"),
   set_group_topic                      |-> Text("SetGroupTopic")]

Settings ==
  [set_privacy_setting |-> Text("SetPrivacySetting"),
   set_passive         |-> Text("SetPassive"),
   set_status_message  |-> Text("SetStatusMessage"),
   subscribe_presence  |-> Text("SubscribePresence"),
   unfollow_newsletter |-> Text("UnfollowNewsletter"),
   unlink_group        |-> Text("UnlinkGroup"),
   update_blocklist    |-> Model("UpdateBlocklist")]

Updates ==
  [update_group_participants |-> Model("UpdateGroupParticipants"),
   upload_newsletter         |-> Model("UploadNewsletter"),
   create_group              |-> generate_message_id ** Model("CreateGroup")]

Subscriptions ==
  [get_group_request_participants  |-> Model("GetGroupRequestParticipants"),
   get_joined_groups               |-> Model("GetJoinedGroups"),
   create_newsletter               |-> Model("CreateNewsletter"),
   follow_newsletter               |-> Text("FollowNewsletter"),
   get_newsletter_info_with_invite |-> Model("GetNewsletterInfoWithInvite"),
   get_newsletter_message_update   |-> Model("GetNewsletterMessageUpdate"),
   get_newsletter_messages         |-> Model("GetNewsletterMessages")]

Queries ==
  [get_privacy_settings     |-> Result("GetPrivacySettings"),
   get_profile_picture      |-> Model("GetProfilePicture"),
   get_status_privacy       |-> Model("GetStatusPrivacy"),
   get_sub_groups           |-> Model("GetSubGroups"),
   get_subscribed_newletters |-> Model("GetSubscribedNewsletters"),
   get_user_devices         |-> Model("GetUserDevices"),
   get_blocklist            |-> Model("GetBlocklist")]

\* Go marshals a ReturnFunctionWithError for the linked participants.
Links ==
  [get_contact_qr_link           |-> Model("GetContactQRLink"),
   get_linked_group_participants |-> Garbled("GetLinkedGroupsParticipants"),
   get_newsletter_info           |-> Model("GetNewsletterInfo")]

\* stop asks the library for a function it does not have; decrypt_poll_vote
\* passes two of three arguments.
Retrieval ==
  [stop                  |-> Refused("stop"),
   get_message_for_retry |-> Model("GetMessageForRetry"),
   get_message           |-> Model("GetMessage"),
   get_media             |-> Model("GetMedia"),
   send_fb_message       |-> Model("SendFBMessage"),
   send_presence         |-> Text("SendPresence"),
   decrypt_poll_vote     |-> Refused("DecryptPollVote")]

Scheduler ==
  [disconnect                |-> Value("Disconnect"),
   create_scheduler_template |-> Model("CreateSchedulerTemplate"),
   list_scheduler_templates  |-> Model("ListSchedulerTemplates"),
   create_scheduler_schedule |-> Model("CreateSchedulerSchedule"),
   list_scheduler_schedules  |-> Model("ListSchedulerSchedules")]

\* The device list is split by Python.
get_all_devices == Told("GetAllDevices") ** Own

\* put_pushname passes three of four arguments.
ContactStore ==
  [put_pushname         |-> Refused("PutPushName"),
   put_contact_name     |-> Told("PutContactName"),
   put_all_contact_name |-> Text("PutAllContactNames"),
   get_contact          |-> Model("GetContact"),
   get_all_contacts     |-> Model("GetAllContacts")]

ChatSettingsStore ==
  [put_muted_until   |-> Text("PutMutedUntil"),
   put_pinned        |-> Text("PutPinned"),
   put_archived      |-> Text("PutArchived"),
   get_chat_settings |-> Model("GetChatSettings")]

Composed ==
  [upload                 |-> upload,
   get_group_info         |-> get_group_info,
   get_me                 |-> get_me,
   generate_message_id    |-> generate_message_id,
   send_message           |-> send_message,
   build_reply_message    |-> build_reply_message,
   reply_message          |-> reply_message,
   edit_message           |-> edit_message,
   build_revoke           |-> build_revoke,
   revoke_message         |-> revoke_message,
   build_sticker_message  |-> build_sticker_message,
   send_sticker           |-> send_sticker,
   build_video_message    |-> build_video_message,
   send_video             |-> send_video,
   build_image_message    |-> build_image_message,
   send_image             |-> send_image,
   build_audio_message    |-> build_audio_message,
   send_audio             |-> send_audio,
   build_document_message |-> build_document_message,
   send_document          |-> send_document,
   send_contact           |-> send_contact,
   get_all_devices        |-> get_all_devices]

Methods ==
  ContactStore @@ ChatSettingsStore @@ Composed @@ Builders @@ Downloads
    @@ Presences @@ Groups @@ Invites @@ Newsletters @@ Timers @@ Settings
    @@ Updates @@ Subscriptions @@ Queries @@ Links @@ Retrieval @@ Scheduler
==============================================================================
