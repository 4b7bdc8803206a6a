------------------------------- MODULE FbsdHal --------------------------------
(***************************************************************************)
(* The FreeBSD copy of the hardware abstraction layer, a file of its own   *)
(* (fbsd/ena/ena-com/ena_com.c).  Its functions have the control of the    *)
(* Linux copy, HalBringUp, but where a definition is spelled out: here the *)
(* spin lock of the admin queue is an object that must be destroyed.       *)
(***************************************************************************)
EXTENDS Steps, TLC

H == INSTANCE HalBringUp

ena_com_mmio_reg_read_request_init == H!ena_com_mmio_reg_read_request_init
ena_com_mmio_reg_read_request_destroy == H!ena_com_mmio_reg_read_request_destroy
ena_com_reg_bar_read32 == H!ena_com_reg_bar_read32
wait_for_reset_state == H!wait_for_reset_state
ena_com_validate_version == H!ena_com_validate_version
ena_com_get_dma_width == H!ena_com_get_dma_width
ena_com_dev_reset == H!ena_com_dev_reset

ena_com_init_comp_ctxt == H!ena_com_init_comp_ctxt
ena_com_admin_init_sq == H!ena_com_admin_init_sq
ena_com_admin_init_cq == H!ena_com_admin_init_cq
ena_com_admin_init_aenq == H!ena_com_admin_init_aenq
ena_com_admin_init == Fn(
    Call("ena_com_reg_bar_read32", Return) \o
    Try(Return) \o
    Have("q_lock") \o
    Call("ena_com_init_comp_ctxt", "error") \o
    Call("ena_com_admin_init_sq", "error") \o
    Call("ena_com_admin_init_cq", "error") \o
    Call("ena_com_admin_init_aenq", "error") \o
    Set("aq_on_device") \o Set("ADMIN_RUNNING"),
    Label("error", Best("ena_com_admin_destroy")))
ena_com_admin_destroy == Simple(
    PutIfHeld("comp_ctx") \o
    PutIfHeld("admin_sq") \o PutIfHeld("admin_cq") \o PutIfHeld("aenq") \o
    Put("q_lock"))
ena_com_set_admin_running_state == H!ena_com_set_admin_running_state
ena_com_abort_admin_commands == H!ena_com_abort_admin_commands
ena_com_admin_aenq_enable == H!ena_com_admin_aenq_enable

ena_com_get_feature_ex == H!ena_com_get_feature_ex
ena_com_get_dev_attr_feat == H!ena_com_get_dev_attr_feat
ena_com_set_aenq_config == H!ena_com_set_aenq_config
ena_com_set_llq == H!ena_com_set_llq
ena_com_config_dev_mode == H!ena_com_config_dev_mode

ena_com_init_io_sq == H!ena_com_init_io_sq
ena_com_init_io_cq == H!ena_com_init_io_cq
ena_com_create_io_cq == H!ena_com_create_io_cq
ena_com_create_io_sq == H!ena_com_create_io_sq
ena_com_create_io_queue == H!ena_com_create_io_queue
ena_com_destroy_io_sq == H!ena_com_destroy_io_sq
ena_com_destroy_io_cq == H!ena_com_destroy_io_cq
ena_com_io_queue_free == H!ena_com_io_queue_free
ena_com_destroy_io_queue == H!ena_com_destroy_io_queue

ena_com_indirect_table_allocate == H!ena_com_indirect_table_allocate
ena_com_indirect_table_destroy == H!ena_com_indirect_table_destroy
ena_com_hash_key_allocate == H!ena_com_hash_key_allocate
ena_com_hash_key_destroy == H!ena_com_hash_key_destroy
ena_com_hash_ctrl_init == H!ena_com_hash_ctrl_init
ena_com_hash_ctrl_destroy == H!ena_com_hash_ctrl_destroy
ena_com_rss_init == H!ena_com_rss_init
ena_com_rss_destroy == H!ena_com_rss_destroy
ena_com_indirect_table_fill_entry == H!ena_com_indirect_table_fill_entry
ena_com_indirect_table_get == H!ena_com_indirect_table_get
ena_com_get_hash_function == H!ena_com_get_hash_function
ena_com_get_hash_key == H!ena_com_get_hash_key
ena_com_indirect_table_set == H!ena_com_indirect_table_set
ena_com_set_hash_function == H!ena_com_set_hash_function
ena_com_fill_hash_function == H!ena_com_fill_hash_function
ena_com_get_hash_ctrl == H!ena_com_get_hash_ctrl
ena_com_set_hash_ctrl == H!ena_com_set_hash_ctrl
ena_com_fill_hash_ctrl == H!ena_com_fill_hash_ctrl
ena_com_set_default_hash_ctrl == H!ena_com_set_default_hash_ctrl
ena_com_set_dev_mtu == H!ena_com_set_dev_mtu

ena_com_allocate_host_info == H!ena_com_allocate_host_info
ena_com_delete_host_info == H!ena_com_delete_host_info
ena_com_allocate_customer_metrics_buffer == H!ena_com_allocate_customer_metrics_buffer
ena_com_delete_customer_metrics_buffer == H!ena_com_delete_customer_metrics_buffer
ena_com_set_host_attributes == H!ena_com_set_host_attributes

FbsdHalCode ==
    [ena_com_mmio_reg_read_request_init |-> ena_com_mmio_reg_read_request_init,
     ena_com_mmio_reg_read_request_destroy |-> ena_com_mmio_reg_read_request_destroy,
     ena_com_reg_bar_read32 |-> ena_com_reg_bar_read32,
     wait_for_reset_state |-> wait_for_reset_state,
     ena_com_validate_version |-> ena_com_validate_version,
     ena_com_get_dma_width |-> ena_com_get_dma_width,
     ena_com_dev_reset |-> ena_com_dev_reset,
     ena_com_init_comp_ctxt |-> ena_com_init_comp_ctxt,
     ena_com_admin_init_sq |-> ena_com_admin_init_sq,
     ena_com_admin_init_cq |-> ena_com_admin_init_cq,
     ena_com_admin_init_aenq |-> ena_com_admin_init_aenq,
     ena_com_admin_init |-> ena_com_admin_init,
     ena_com_admin_destroy |-> ena_com_admin_destroy,
     ena_com_set_admin_running_state |-> ena_com_set_admin_running_state,
     ena_com_abort_admin_commands |-> ena_com_abort_admin_commands,
     ena_com_admin_aenq_enable |-> ena_com_admin_aenq_enable,
     ena_com_get_feature_ex |-> ena_com_get_feature_ex,
     ena_com_get_dev_attr_feat |-> ena_com_get_dev_attr_feat,
     ena_com_set_aenq_config |-> ena_com_set_aenq_config,
     ena_com_set_llq |-> ena_com_set_llq,
     ena_com_config_dev_mode |-> ena_com_config_dev_mode,
     ena_com_init_io_sq |-> ena_com_init_io_sq,
     ena_com_init_io_cq |-> ena_com_init_io_cq,
     ena_com_create_io_cq |-> ena_com_create_io_cq,
     ena_com_create_io_sq |-> ena_com_create_io_sq,
     ena_com_create_io_queue |-> ena_com_create_io_queue,
     ena_com_destroy_io_sq |-> ena_com_destroy_io_sq,
     ena_com_destroy_io_cq |-> ena_com_destroy_io_cq,
     ena_com_io_queue_free |-> ena_com_io_queue_free,
     ena_com_destroy_io_queue |-> ena_com_destroy_io_queue,
     ena_com_indirect_table_allocate |-> ena_com_indirect_table_allocate,
     ena_com_indirect_table_destroy |-> ena_com_indirect_table_destroy,
     ena_com_hash_key_allocate |-> ena_com_hash_key_allocate,
     ena_com_hash_key_destroy |-> ena_com_hash_key_destroy,
     ena_com_hash_ctrl_init |-> ena_com_hash_ctrl_init,
     ena_com_hash_ctrl_destroy |-> ena_com_hash_ctrl_destroy,
     ena_com_rss_init |-> ena_com_rss_init,
     ena_com_rss_destroy |-> ena_com_rss_destroy,
     ena_com_indirect_table_fill_entry |-> ena_com_indirect_table_fill_entry,
     ena_com_indirect_table_get |-> ena_com_indirect_table_get,
     ena_com_get_hash_function |-> ena_com_get_hash_function,
     ena_com_get_hash_key |-> ena_com_get_hash_key,
     ena_com_indirect_table_set |-> ena_com_indirect_table_set,
     ena_com_set_hash_function |-> ena_com_set_hash_function,
     ena_com_fill_hash_function |-> ena_com_fill_hash_function,
     ena_com_get_hash_ctrl |-> ena_com_get_hash_ctrl,
     ena_com_set_hash_ctrl |-> ena_com_set_hash_ctrl,
     ena_com_fill_hash_ctrl |-> ena_com_fill_hash_ctrl,
     ena_com_set_default_hash_ctrl |-> ena_com_set_default_hash_ctrl,
     ena_com_set_dev_mtu |-> ena_com_set_dev_mtu,
     ena_com_allocate_host_info |-> ena_com_allocate_host_info,
     ena_com_delete_host_info |-> ena_com_delete_host_info,
     ena_com_allocate_customer_metrics_buffer |-> ena_com_allocate_customer_metrics_buffer,
     ena_com_delete_customer_metrics_buffer |-> ena_com_delete_customer_metrics_buffer,
     ena_com_set_host_attributes |-> ena_com_set_host_attributes]
=============================================================================
